---------------------------- MODULE Spec2Model ----------------------------
(***************************************************************************)
(* A model of MLflow's in-process tracing core.                            *)
(*                                                                         *)
(* Part I  (SpecTM): InMemoryTraceManager and KeyLocalLock, used by        *)
(*          several threads (mlflow/tracing/trace_manager.py, utils.py).   *)
(* Part II (SpecAsync): the span processor's AsyncTraceTaskQueue with its  *)
(*          drain thread, worker pool, status-check pool and flush         *)
(*          (mlflow/tracing/processor/mlflow.py).                          *)
(* Parts III to VII: the tracing decorator's wrappers, add_trace, span     *)
(*          contexts, span start times and span status.                    *)
(* Part VIII (SpecCalls): decorated calls and with-blocks on one thread.   *)
(* Part IX (SpecStream): the wrapper of a decorated generator.             *)
(* Part X  (SpecTags): trace tags and the StartTraceTask.                  *)
(* Part XI (SpecExport): from the root span's start to the export, with    *)
(*          synchronous and asynchronous logging and a failing backend.    *)
(* Part XII (SpecLiveSpan): the calls on one span object before and after  *)
(*          its end (mlflow/tracing/types/wrapper.py).                     *)
(* Part XIII (SpecSetTag): InMemoryTraceManager.set_trace_tag.             *)
(* Part XIV (SpecConfig): configure and reset_config                       *)
(*          (mlflow/tracing/config.py).                                    *)
(* Part XV (SpecRetry): the attempts of one EndTraceTask, with a clock.    *)
(* Part XVI (SpecOnStart): on_start and the backend start-trace call.      *)
(* Part XVII (SpecActivate): put and activate on a fresh queue, called by  *)
(*          several threads.                                               *)
(* Part XVIII (SpecDisplay): export of a root span and the display hook    *)
(*          (mlflow/tracing/export/mlflow.py).                             *)
(***************************************************************************)
EXTENDS Integers, Sequences, FiniteSets, TLC

(***************************************************************************)
(* Bounds of the model.                                                    *)
(***************************************************************************)
NumThreads == 2
NumTraces == 2
NumSpans == 2
\* The calls each thread makes to the trace manager.
MaxCalls == 2

Threads == 1..NumThreads
TraceIds == 1..NumTraces
SpanIds == 1..NumSpans

\* Python's None, as a key or as a value.
NoneId == 0

\* The request id the backend gives the trace with OpenTelemetry id t; the
\* request id 100 belongs to no trace.
RequestIdOf(t) == 100 + t
RequestIds == {RequestIdOf(t) : t \in TraceIds} \cup {100}

\* Lock objects created by defaultdict(threading.Lock): one per key that is
\* in the dictionary plus the ones threads still hold a reference to.
LockIds == 1..(NumTraces + 1 + NumThreads)

VARIABLES
    \* InMemoryTraceManager._traces: the trace ids in the TTLCache
    traces,
    \* the _Trace object created for each trace id (None before add_trace);
    \* it outlives its removal from _traces while a thread holds a reference
    traceObj,
    \* InMemoryTraceManager._request_id_to_trace_id
    request_id_to_trace_id,
    \* KeyLocalLock.trace_locks: key -> lock object (NoneId: no entry)
    trace_locks,
    \* the owner of each lock object (NoneId: free)
    lockOwner,
    \* each thread's position in the method it is running
    pc,
    \* each thread's call: [op, trace_id, request_id, span_id, parent]
    call,
    \* each thread's local variables: [lock, trace_id, found, iter]
    local,
    \* each thread's return value of its last finished call
    ret,
    \* the number of calls each thread has made
    ncalls,
    \* history: traces add_trace was called for
    added,
    \* history: traces removed from the cache by TTL/size eviction
    evicted,
    \* history: for each trace, how many pop_trace calls returned its aggregate
    received,
    \* history: for each trace, the spans whose registration has returned
    regDone,
    \* history: per thread, the spans registered when its pop removed the trace
    regAtPop,
    \* history: traces that had a span stored while another thread was
    \* registering a different span of the same trace
    overlapped

VARIABLES
    \* AsyncTraceTaskQueue._queue: the tasks waiting for the drain thread
    queue,
    \* AsyncTraceTaskQueue._is_activated
    is_activated,
    \* AsyncTraceTaskQueue._stop_data_logging_thread_event
    stop_event,
    \* _trace_logging_thread: "none", "running" or "exited"
    drain,
    \* _trace_logging_worker_threadpool: "none", "running" or "shutdown"
    workerPool,
    \* _trace_status_check_threadpool: "none", "running" or "shutdown"
    statusPool,
    \* the _handle(task) calls submitted to the worker pool and not yet run
    workItems,
    \* the traces whose StartTraceTask is inside the backend call
    inBackend,
    \* the tasks a _wait_for_task call of the status-check pool waits for
    waiters,
    \* the tasks whose completion_event is set
    completion,
    \* the tasks whose exception field is set
    failed,
    \* EndTraceTask.retry of each trace's end task
    retry,
    \* the traces registered in the trace manager by on_start
    registered,
    \* the traces whose RequestIdFuture is completed
    futureReady,
    \* how often the exporter was invoked for each trace
    exported,
    \* the application's position for each trace: "new", "started", "ended"
    appPc,
    \* the position of the thread that calls flush, and its argument
    flushPc, keep_running,
    \* history: the number of flush calls
    nflush,
    \* history: the tasks put before the running flush was called
    putBeforeFlush,
    \* history: the traces whose backend start call raised
    backendFailed,
    \* history: the tasks whose put raised (the status pool was shut down)
    putFailed

VARIABLES
    \* the decorated function of the running call: [kind, attrs, chunks, raises]
    wFn,
    \* the tracing-protocol calls that raise during the call
    wFaults,
    \* the wrapper's position
    wPc,
    \* the span the wrapper works with: "none", "live" or "noop"
    wSpan,
    \* whether the span was ended
    wEnded,
    \* the chunks the wrapper has yielded to its caller
    wYielded,
    \* what the wrapper is about to hand to its caller
    wPending,
    \* what the caller got: "none", "value", "stop", "user_exc", "tracing_exc"
    wResult,
    \* how often the wrapper called the decorated function
    wFnCalls

VARIABLES
    \* add_trace's position: "idle", "called", "validated", "done"
    mgPc,
    \* the trace given to add_trace: [status, spans]
    mgTrace,
    \* the target argument of add_trace (NoneId: not given)
    mgTarget,
    \* the span get_current_active_span() returns (NoneId: none)
    mgActive,
    \* the trace manager's registry: trace id -> span_dict
    mgReg,
    \* the aggregates exported so far
    mgExported,
    \* how add_trace ended: "none", "merged", "usage_error", "skipped",
    \* "key_error"
    mgResult,
    \* trace.info of the registered and of the exported traces, by trace id:
    \* [tags, request_metadata]
    mgInfo

VARIABLES
    \* the OpenTelemetry spans started so far, by span id:
    \* [trace_id, parent_id, request_id, kind, open]
    sSpans,
    \* the number of OpenTelemetry trace ids generated so far
    sNextTrace,
    \* the trace manager's registry: trace id -> span_dict
    sTraces,
    \* the OpenTelemetry context of the thread: the spans attached and not
    \* detached, the current span last
    sCtx,
    \* history: the spans the code outside the generator has entered and not
    \* left
    sConsumer,
    \* the traced generator: [pc, span, token, yielded]
    sGen,
    \* the aggregates the exporter received
    sExported

VARIABLES
    \* time.time_ns()
    cNow,
    \* where the span is: "idle", "on_start", "start_trace", "stamp",
    \* "running", "ended"
    cPc,
    \* the trace manager has no request id for the span's trace id
    cFirst,
    \* MLFLOW_ENABLE_ASYNC_LOGGING
    cAsync,
    \* span._start_time and span._end_time (0: not set)
    cStart, cEnd,
    \* history: the time the backend's start-trace call took inside on_start,
    \* and the time that passed between the return of on_start and the end
    \* of the span
    cLatency, cWork

VARIABLES
    \* the status code of the OpenTelemetry span
    stStatus,
    \* the kinds of the events added to the span, in order
    stEvents,
    \* the span has ended
    stEnded,
    \* history: the caller has called set_status or has passed a status to
    \* end_span
    stSetStatusCalled,
    \* history: the status when the ending operation was called
    stStatusAtEnd

VARIABLES
    \* the spans started by decorated calls and with-blocks, by span id
    kSpans,
    \* the frames of the thread that have entered a span and not left it
    kStack,
    \* the OpenTelemetry context: the attached spans, the current span last
    kCtx,
    \* the trace ids registered in the trace manager
    kReg,
    \* the traces the exporter received, in order
    kExported,
    \* the number of OpenTelemetry trace ids generated so far
    kNextTrace,
    \* the exception that is propagating (0: none)
    kPending

VARIABLES
    \* the decorated generator function of the call:
    \* [chunks, raises, reducer]
    gFn,
    \* "idle", "created" (the wrapper's generator exists, nothing has run),
    \* "suspended" (the wrapper has yielded a chunk), "done"
    gPc,
    \* the wrapper's locals i and outputs
    gI, gOutputs,
    \* the span of the stream: [events, status, outputs, ends]
    gSpan,
    \* the chunks the consumer has received, and how its last next() ended:
    \* "none", "chunk", "stop" (StopIteration) or "raise" (the exception of
    \* the generator's body)
    gReceived, gCaller

VARIABLES
    \* MLFLOW_ENABLE_ASYNC_LOGGING
    tgAsync,
    \* the trace: "idle", "in_progress", "ended" (the EndTraceTask waits in
    \* the queue), "exported"
    tgPc,
    \* trace.info.tags of the registered trace
    tgTags,
    \* the StartTraceTask: "none", "queued", "in_backend", "done"
    tgTask,
    \* the tags the backend's start-trace call was given
    tgSent,
    \* the tags of the trace the exporter logged
    tgExportedTags,
    \* history: the tag updates of the application applied in order
    tgExpected

VARIABLES
    \* MLFLOW_ENABLE_ASYNC_LOGGING: "unset", "sync", "async"
    xMode,
    \* the traced call that makes trace t: "new", "in_call" (the root span
    \* is live), "noop" (the call runs with a NoOpSpan), "returned"
    xPc,
    \* the application thread that makes trace t (NoneId before the call)
    xOwner,
    \* trace t in the trace manager: "none", "future" (registered, the request
    \* id not resolved), "ready" (registered, request id known), "popped"
    xManager,
    \* trace.info.status of trace t: "IN_PROGRESS", "OK"
    xStatus,
    \* the tasks in the processor's queue or with its workers
    xTasks,
    \* EndTraceTask.retry of trace t
    xRetry,
    \* TRACE_BUFFER: the traces the exporter has put into it
    xBuffer,
    \* the backend's record of trace t: "none", "started", "logged"
    xBackend,
    \* history: the traces for which a backend call ran on the caller's thread
    xCallerIO,
    \* history: the traces whose backend start-trace call raised
    xStartFailed,
    \* history: the traces whose backend log-trace call raised
    xLogFailed,
    \* history: the number of backend log-trace calls made for trace t
    xLogCalls,
    \* history: the traces for which "Failed to log trace" was warned
    xWarned,
    \* the exporter's AsyncTraceLoggingQueue._is_activated
    xLogQueueActive,
    \* history: the traces whose call had returned when a flush returned
    xFlushed,
    \* _LAST_ACTIVE_TRACE_ID_GLOBAL
    xLastGlobal,
    \* _LAST_ACTIVE_TRACE_ID_THREAD_LOCAL, per application thread
    xLastLocal,
    \* history: the trace each application thread completed last
    xLastCompleted,
    \* the number of times MlflowSpanExporter.export ran for the root span
    \* of each trace
    xExports
VARIABLES
    \* the span object: "none", "live" (wraps an OpenTelemetry span of the
    \* tracer), "immutable" (reconstructed from storage), "noop" (NoOpSpan)
    lsKind,
    \* the attributes of the OpenTelemetry span, NoValue for an absent key
    lsAttrs,
    \* the status code of the OpenTelemetry span
    lsStatus,
    \* the number of events of the OpenTelemetry span
    lsEvents,
    \* _end_time of the OpenTelemetry span, NoneId before the end
    lsEndTime,
    \* the calls of the span processor's on_end for the span
    lsOnEnd,
    \* the last call on the span raised: "none", "MlflowException"
    lsRaised,
    \* the last call on the span logged a warning
    lsWarned,
    \* time.time_ns()
    lsNow,
    \* history: the times at which _end_time was assigned
    lsEndAssigned,
    \* history: the span had ended before the last call
    lsEndedBefore
VARIABLES
    \* InMemoryTraceManager._traces: trace id -> [request_id, tags, spans],
    \* the registered traces only
    rTraces,
    \* InMemoryTraceManager._request_id_to_trace_id, NoneId for no entry
    rIndex,
    \* the last set_trace_tag call: [request_id, key, value, raised]
    rCall,
    \* the number of set_trace_tag calls so far
    rCalls

VARIABLES
    \* MLFLOW_ENABLE_ASYNC_TRACE_LOGGING, "True" or "False"
    cfEnv,
    \* _ACTIVE_TRACING_CONFIG: [wait_for_logging, display_on_notebook]
    cfActive,
    \* the with-blocks entered and not left, innermost last: the config
    \* object of each, [config, _old_config]
    cfBlocks,
    \* history: the last call, [op, wait_for_logging, display_on_notebook]
    \* with the arguments as passed, and the configurations that were
    \* active before the with-blocks entered and not left
    cfLast,
    cfBefore,
    \* the number of calls so far
    cfOps

VARIABLES
    \* the clock
    rtNow,
    \* where the EndTraceTask is: "none" (not put yet), "queue", "worker"
    \* (submitted to the pool), "handled", "dropped"
    rtWhere,
    \* task.retry
    rtRetry,
    \* the StartTraceTask has completed the request id
    rtReady,
    \* history: the clock readings at which a worker ran task.handle()
    rtAttempts,
    \* the "Failed to process task" warning was logged
    rtWarned,
    \* task.completion_event is set
    rtCompletion,
    \* the number of times the on_end handler (the exporter) was called
    rtExports

VARIABLES
    \* InMemoryTraceManager: trace id -> the request id of the registered
    \* trace info, NoneId when the trace is not in the registry
    osReg,
    \* trace id -> the number of backend start-trace calls made for it
    osCalls,
    \* the number of backend start-trace calls so far
    osBackend,
    \* trace id -> the number of spans started with it
    osTotal,
    \* trace id -> the number of its spans that are open
    osOpen

VARIABLES
    \* thread -> its position in put / activate
    qaPc,
    \* thread -> the call it is in: "none", "put", "activate"
    qaCall,
    \* thread -> the number of calls it has made
    qaCalls,
    \* the owner of self._lock (an RLock), NoneId when it is free
    qaLock,
    \* self._is_activated
    qaActivated,
    \* the number of drain threads started
    qaDrainThreads,
    \* the number of pairs of thread pools created
    qaPools,
    \* the number of callbacks registered with atexit
    qaHooks,
    \* self._queue: the tasks put, a task being <<thread, number of the call>>
    qaQueue,
    \* the tasks handed to the status-check pool
    qaSubmitted,
    \* the tasks whose put raised
    qaRaised,
    \* the tasks whose put returned
    qaReturned

VARIABLES
    \* "idle", "called" (export was called for a root span), "done"
    dxPc,
    \* the circumstances of the call: the display_on_notebook option, whether
    \* the display handler's hook raises, whether the trace is made inside a
    \* model evaluation, whether logging is asynchronous, whether the
    \* backend call succeeds
    dxIn,
    \* the number of export calls so far
    dxCalls,
    \* the last export displayed the trace
    dxDisplayed,
    \* the last export logged the trace to the backend
    dxLogged,
    \* an exception left the last export
    dxEscaped

aqVars == <<queue, is_activated, stop_event, drain, workerPool, statusPool,
            workItems, inBackend, waiters, completion, failed, retry,
            registered, futureReady, exported, appPc, flushPc, keep_running,
            nflush, putBeforeFlush, backendFailed, putFailed>>

tmVars == <<traces, traceObj, request_id_to_trace_id, trace_locks, lockOwner,
            pc, call, local, ret, ncalls, added, evicted, received, regDone,
            regAtPop, overlapped>>

wrVars == <<wFn, wFaults, wPc, wSpan, wEnded, wYielded, wPending, wResult,
            wFnCalls>>

mgVars == <<mgPc, mgTrace, mgTarget, mgActive, mgReg, mgExported, mgResult, mgInfo>>

spVars == <<sSpans, sNextTrace, sTraces, sCtx, sConsumer, sGen, sExported>>

ckVars == <<cNow, cPc, cFirst, cAsync, cStart, cEnd, cLatency, cWork>>

stVars == <<stStatus, stEvents, stEnded, stSetStatusCalled, stStatusAtEnd>>

kVars == <<kSpans, kStack, kCtx, kReg, kExported, kNextTrace, kPending>>

gsVars == <<gFn, gPc, gI, gOutputs, gSpan, gReceived, gCaller>>

tgVars == <<tgAsync, tgPc, tgTags, tgTask, tgSent, tgExportedTags, tgExpected>>

xVars == <<xMode, xPc, xOwner, xManager, xStatus, xTasks, xRetry, xBuffer, xBackend, xCallerIO, xStartFailed, xLogFailed, xLogCalls, xWarned, xLogQueueActive, xFlushed, xLastGlobal, xLastLocal, xLastCompleted, xExports>>

lsVars == <<lsKind, lsAttrs, lsStatus, lsEvents, lsEndTime, lsOnEnd, lsRaised, lsWarned, lsNow, lsEndAssigned, lsEndedBefore>>

rVars == <<rTraces, rIndex, rCall, rCalls>>

cfVars == <<cfEnv, cfActive, cfBlocks, cfLast, cfBefore, cfOps>>

rtVars == <<rtNow, rtWhere, rtRetry, rtReady, rtAttempts, rtWarned, rtCompletion, rtExports>>

osVars == <<osReg, osCalls, osBackend, osTotal, osOpen>>

qaVars == <<qaPc, qaCall, qaCalls, qaLock, qaActivated, qaDrainThreads, qaPools, qaHooks, qaQueue, qaSubmitted, qaRaised, qaReturned>>

dxVars == <<dxPc, dxIn, dxCalls, dxDisplayed, dxLogged, dxEscaped>>

\* The state outside Part I.
notTM == <<aqVars, wrVars, mgVars, spVars, ckVars, stVars, kVars, gsVars, tgVars, xVars, lsVars, rVars, cfVars, rtVars, osVars, qaVars, dxVars>>

\* The state outside Part II.
notAsync == <<tmVars, wrVars, mgVars, spVars, ckVars, stVars, kVars, gsVars, tgVars, xVars, lsVars, rVars, cfVars, rtVars, osVars, qaVars, dxVars>>

\* The state outside Part III.
notWrap == <<tmVars, aqVars, mgVars, spVars, ckVars, stVars, kVars, gsVars, tgVars, xVars, lsVars, rVars, cfVars, rtVars, osVars, qaVars, dxVars>>

\* The state outside Part IV.
notMerge == <<tmVars, aqVars, wrVars, spVars, ckVars, stVars, kVars, gsVars, tgVars, xVars, lsVars, rVars, cfVars, rtVars, osVars, qaVars, dxVars>>

\* The state outside Part V.
notSpans == <<tmVars, aqVars, wrVars, mgVars, ckVars, stVars, kVars, gsVars, tgVars, xVars, lsVars, rVars, cfVars, rtVars, osVars, qaVars, dxVars>>

\* The state outside Part VI.
notClock == <<tmVars, aqVars, wrVars, mgVars, spVars, stVars, kVars, gsVars, tgVars, xVars, lsVars, rVars, cfVars, rtVars, osVars, qaVars, dxVars>>

\* The state outside Part VII.
notStatus == <<tmVars, aqVars, wrVars, mgVars, spVars, ckVars, kVars, gsVars, tgVars, xVars, lsVars, rVars, cfVars, rtVars, osVars, qaVars, dxVars>>

\* The state outside Part VIII.
notCalls == <<tmVars, aqVars, wrVars, mgVars, spVars, ckVars, stVars, gsVars, tgVars, xVars, lsVars, rVars, cfVars, rtVars, osVars, qaVars, dxVars>>

\* The state outside Part IX.
notStream == <<tmVars, aqVars, wrVars, mgVars, spVars, ckVars, stVars, kVars, tgVars, xVars, lsVars, rVars, cfVars, rtVars, osVars, qaVars, dxVars>>

\* The state outside Part X.
notTags == <<tmVars, aqVars, wrVars, mgVars, spVars, ckVars, stVars, kVars, gsVars, xVars, lsVars, rVars, cfVars, rtVars, osVars, qaVars, dxVars>>

\* The state outside Part XI.
notExport == <<tmVars, aqVars, wrVars, mgVars, spVars, ckVars, stVars, kVars, gsVars, tgVars, lsVars, rVars, cfVars, rtVars, osVars, qaVars, dxVars>>

\* The state outside Part XII.
notLiveSpan == <<tmVars, aqVars, wrVars, mgVars, spVars, ckVars, stVars, kVars, gsVars, tgVars, xVars, rVars, cfVars, rtVars, osVars, qaVars, dxVars>>

\* The state outside Part XIII.
notSetTag == <<tmVars, aqVars, wrVars, mgVars, spVars, ckVars, stVars, kVars, gsVars, tgVars, xVars, lsVars, cfVars, rtVars, osVars, qaVars, dxVars>>

\* The state outside Part XIV.
notConfig == <<tmVars, aqVars, wrVars, mgVars, spVars, ckVars, stVars, kVars, gsVars, tgVars, xVars, lsVars, rVars, rtVars, osVars, qaVars, dxVars>>

\* The state outside Part XV.
notRetry == <<tmVars, aqVars, wrVars, mgVars, spVars, ckVars, stVars, kVars, gsVars, tgVars, xVars, lsVars, rVars, cfVars, osVars, qaVars, dxVars>>

\* The state outside Part XVI.
notOnStart == <<tmVars, aqVars, wrVars, mgVars, spVars, ckVars, stVars, kVars, gsVars, tgVars, xVars, lsVars, rVars, cfVars, rtVars, qaVars, dxVars>>

\* The state outside Part XVII.
notActivate == <<tmVars, aqVars, wrVars, mgVars, spVars, ckVars, stVars, kVars, gsVars, tgVars, xVars, lsVars, rVars, cfVars, rtVars, osVars, dxVars>>

\* The state outside Part XVIII.
notDisplay == <<tmVars, aqVars, wrVars, mgVars, spVars, ckVars, stVars, kVars, gsVars, tgVars, xVars, lsVars, rVars, cfVars, rtVars, osVars, qaVars>>

-----------------------------------------------------------------------------
(***************************************************************************)
(* Values                                                                  *)
(***************************************************************************)
NoCall == [op |-> "none", trace_id |-> NoneId, request_id |-> NoneId,
           span_id |-> NoneId, parent |-> NoneId]
NoLocal == [lock |-> NoneId, trace_id |-> NoneId, found |-> FALSE, iter |-> {}]
NoRet == [kind |-> "none", trace_id |-> NoneId, spans |-> {}]

\* _Trace(info=trace_info): an aggregate without spans. span_dict maps a
\* span id to the span registered under it: [trace_id, parent_id].
NewTrace(t) == [request_id |-> RequestIdOf(t), span_dict |-> <<>>]

\* trace.span_dict[span.span_id] = span
SpanDictPutLossy(d, sid, span) == (sid :> span)
SpanDictPut(d, sid, span) ==
    [x \in (DOMAIN d) \cup {sid} |-> IF x = sid THEN span ELSE d[x]]

\* _Trace.to_mlflow_trace: the exported spans, as (span id, parent id) pairs
ToMlflowTrace(obj) ==
    {<<sid, obj.span_dict[sid].parent_id>> : sid \in DOMAIN obj.span_dict}

\* The span a registration call passes to the trace manager.
SpanOf(c) == [trace_id |-> c.trace_id, parent_id |-> c.parent]

\* The lock objects a thread holds a reference to.
ReferencedLocks == {local[th].lock : th \in Threads} \ {NoneId}
UsedLocks == ({trace_locks[k] : k \in DOMAIN trace_locks} \ {NoneId})
                 \cup ReferencedLocks
FreshLock == CHOOSE l \in LockIds \ UsedLocks :
                 \A m \in LockIds \ UsedLocks : l <= m


LockKeys == TraceIds \cup {NoneId}

\* The parent of the span with id sid: span 1 is a root span.
ParentOf(sid) == IF sid = 1 THEN NoneId ELSE 1

-----------------------------------------------------------------------------
(***************************************************************************)
(* Part I: the trace manager                                               *)
(***************************************************************************)
InitTM ==
    /\ traces = {}
    /\ traceObj = [t \in TraceIds |-> [request_id |-> NoneId, span_dict |-> <<>>]]
    /\ request_id_to_trace_id = [r \in RequestIds |-> NoneId]
    /\ trace_locks = [k \in LockKeys |-> NoneId]
    /\ lockOwner = [l \in LockIds |-> NoneId]
    /\ pc = [th \in Threads |-> "idle"]
    /\ call = [th \in Threads |-> NoCall]
    /\ local = [th \in Threads |-> NoLocal]
    /\ ret = [th \in Threads |-> NoRet]
    /\ ncalls = [th \in Threads |-> 0]
    /\ added = {}
    /\ evicted = {}
    /\ received = [t \in TraceIds |-> 0]
    /\ regDone = [t \in TraceIds |-> {}]
    /\ regAtPop = [th \in Threads |-> {}]
    /\ overlapped = {}

\* A thread calls add_trace(trace_id, trace_info). The span processor
\* registers a trace once, at the start of the first span with its id.
CallAddTrace(th, t) ==
    /\ pc[th] = "idle"
    /\ ncalls[th] < MaxCalls
    /\ ncalls' = [ncalls EXCEPT ![th] = @ + 1]
    /\ t \notin added
    /\ added' = added \cup {t}
    /\ call' = [call EXCEPT ![th] = [NoCall EXCEPT !.op = "add_trace", !.trace_id = t]]
    /\ local' = [local EXCEPT ![th] = [NoLocal EXCEPT !.trace_id = t]]
    /\ ret' = [ret EXCEPT ![th] = NoRet]
    /\ pc' = [pc EXCEPT ![th] = "acquire"]
    /\ UNCHANGED <<overlapped, traces, traceObj, request_id_to_trace_id, trace_locks,
                   lockOwner, evicted, received, regDone, regAtPop>>
    /\ UNCHANGED notTM

\* A thread calls pop_trace(request_id).
CallPopTrace(th, r) ==
    /\ pc[th] = "idle"
    /\ ncalls[th] < MaxCalls
    /\ ncalls' = [ncalls EXCEPT ![th] = @ + 1]
    /\ call' = [call EXCEPT ![th] = [NoCall EXCEPT !.op = "pop_trace", !.request_id = r]]
    /\ local' = [local EXCEPT ![th] = NoLocal]
    /\ ret' = [ret EXCEPT ![th] = NoRet]
    /\ regAtPop' = [regAtPop EXCEPT ![th] = {}]
    /\ pc' = [pc EXCEPT ![th] = "pop_read_index"]
    /\ UNCHANGED <<overlapped, traces, traceObj, request_id_to_trace_id, trace_locks,
                   lockOwner, added, evicted, received, regDone>>
    /\ UNCHANGED notTM

\* A thread calls update_span(span) or get_or_create_mlflow_span(otel_span)
\* for the span sid of trace t.
CallRegister(th, op, t, sid) ==
    /\ pc[th] = "idle"
    /\ ncalls[th] < MaxCalls
    /\ ncalls' = [ncalls EXCEPT ![th] = @ + 1]
    /\ call' = [call EXCEPT ![th] = [NoCall EXCEPT !.op = op, !.trace_id = t,
                                       !.span_id = sid, !.parent = ParentOf(sid)]]
    /\ local' = [local EXCEPT ![th] = [NoLocal EXCEPT !.trace_id = t]]
    /\ ret' = [ret EXCEPT ![th] = NoRet]
    /\ pc' = [pc EXCEPT ![th] = "acquire"]
    /\ UNCHANGED <<overlapped, traces, traceObj, request_id_to_trace_id, trace_locks,
                   lockOwner, added, evicted, received, regDone, regAtPop>>
    /\ UNCHANGED notTM

\* pop_trace: trace_id = self._request_id_to_trace_id.get(request_id)
PopReadIndex(th) ==
    /\ pc[th] = "pop_read_index"
    /\ local' = [local EXCEPT ![th].trace_id = request_id_to_trace_id[call[th].request_id]]
    /\ pc' = [pc EXCEPT ![th] = "acquire"]
    /\ UNCHANGED <<overlapped, ncalls, traces, traceObj, request_id_to_trace_id, trace_locks,
                   lockOwner, call, ret, added, evicted, received, regDone, regAtPop>>
    /\ UNCHANGED notTM

\* KeyLocalLock.acquire: with self.registry_lock: lock = self.trace_locks[key].
\* trace_locks is read and written only while registry_lock is held and
\* nothing blocks inside, so the statement is one step. A missing key
\* gets a new lock object (defaultdict).
AcquireLookup(th) ==
    /\ pc[th] = "acquire"
    /\ LET key == local[th].trace_id
           lock == IF trace_locks[key] # NoneId THEN trace_locks[key] ELSE FreshLock
       IN /\ trace_locks' = [trace_locks EXCEPT ![key] = lock]
          /\ local' = [local EXCEPT ![th].lock = lock]
    /\ pc' = [pc EXCEPT ![th] = "lock_wait"]
    /\ UNCHANGED <<overlapped, ncalls, traces, traceObj, request_id_to_trace_id, lockOwner, call,
                   ret, added, evicted, received, regDone, regAtPop>>
    /\ UNCHANGED notTM

\* The first position inside the with-block of each method.
BodyOf(op) ==
    CASE op = "add_trace" -> "add_put"
      [] op = "pop_trace" -> "pop_body"
      [] op = "update_span" -> "upd_body"
      [] op = "get_or_create" -> "goc_get"

\* KeyLocalLock.acquire: with lock: (blocks while another thread owns it)
AcquireLock(th) ==
    /\ pc[th] = "lock_wait"
    /\ lockOwner[local[th].lock] = NoneId
    /\ lockOwner' = [lockOwner EXCEPT ![local[th].lock] = th]
    /\ pc' = [pc EXCEPT ![th] = BodyOf(call[th].op)]
    /\ UNCHANGED <<overlapped, ncalls, traces, traceObj, request_id_to_trace_id, trace_locks, call,
                   local, ret, added, evicted, received, regDone, regAtPop>>
    /\ UNCHANGED notTM

\* add_trace: self._traces[trace_id] = _Trace(info=trace_info)
AddPut(th) ==
    /\ pc[th] = "add_put"
    /\ traces' = traces \cup {call[th].trace_id}
    /\ traceObj' = [traceObj EXCEPT ![call[th].trace_id] = NewTrace(call[th].trace_id)]
    /\ pc' = [pc EXCEPT ![th] = "add_index"]
    /\ UNCHANGED <<overlapped, ncalls, request_id_to_trace_id, trace_locks, lockOwner, call, local,
                   ret, added, evicted, received, regDone, regAtPop>>
    /\ UNCHANGED notTM

\* add_trace: self._request_id_to_trace_id[trace_info.request_id] = trace_id
AddIndex(th) ==
    /\ pc[th] = "add_index"
    /\ request_id_to_trace_id' =
           [request_id_to_trace_id EXCEPT ![RequestIdOf(call[th].trace_id)] = call[th].trace_id]
    /\ local' = [local EXCEPT ![th].found = TRUE]
    /\ pc' = [pc EXCEPT ![th] = "release"]
    /\ UNCHANGED <<overlapped, ncalls, traces, traceObj, trace_locks, lockOwner, call, ret, added,
                   evicted, received, regDone, regAtPop>>
    /\ UNCHANGED notTM

\* pop_trace: if trace_id in self._traces: trace = self._traces.pop(trace_id, None)
PopBody(th) ==
    /\ pc[th] = "pop_body"
    /\ LET tid == local[th].trace_id
       IN IF tid \in traces
          THEN /\ traces' = traces \ {tid}
               /\ local' = [local EXCEPT ![th].found = TRUE]
               /\ regAtPop' = [regAtPop EXCEPT ![th] = regDone[tid]]
               /\ pc' = [pc EXCEPT ![th] = "pop_delete"]
          ELSE /\ pc' = [pc EXCEPT ![th] = "pop_release"]
               /\ UNCHANGED <<traces, local, regAtPop>>
    /\ UNCHANGED <<overlapped, ncalls, traceObj, request_id_to_trace_id, trace_locks, lockOwner,
                   call, ret, added, evicted, received, regDone>>
    /\ UNCHANGED notTM

\* pop_trace: the entry expires between "trace_id in self._traces" and
\* self._traces.pop(trace_id, None), which then returns None.
PopBodyExpired(th) ==
    /\ pc[th] = "pop_body"
    /\ local[th].trace_id \in traces
    /\ traces' = traces \ {local[th].trace_id}
    /\ evicted' = evicted \cup {local[th].trace_id}
    /\ pc' = [pc EXCEPT ![th] = "pop_delete"]
    /\ UNCHANGED <<overlapped, ncalls, traceObj, request_id_to_trace_id, trace_locks, lockOwner,
                   call, local, ret, added, received, regDone, regAtPop>>
    /\ UNCHANGED notTM

\* pop_trace: self._lock.delete(trace_id)  (KeyLocalLock.delete)
PopDeleteLock(th) ==
    /\ pc[th] = "pop_delete"
    /\ trace_locks' = [trace_locks EXCEPT ![local[th].trace_id] = NoneId]
    /\ pc' = [pc EXCEPT ![th] = "pop_release"]
    /\ UNCHANGED <<overlapped, ncalls, traces, traceObj, request_id_to_trace_id, lockOwner, call,
                   local, ret, added, evicted, received, regDone, regAtPop>>
    /\ UNCHANGED notTM

\* pop_trace: the with-block is left, the lock is released
PopRelease(th) ==
    /\ pc[th] = "pop_release"
    /\ lockOwner' = [lockOwner EXCEPT ![local[th].lock] = NoneId]
    /\ local' = [local EXCEPT ![th].lock = NoneId]
    /\ pc' = [pc EXCEPT ![th] = IF local[th].found THEN "pop_iter" ELSE "pop_return"]
    /\ UNCHANGED <<overlapped, ncalls, traces, traceObj, request_id_to_trace_id, trace_locks, call,
                   ret, added, evicted, received, regDone, regAtPop>>
    /\ UNCHANGED notTM

\* to_mlflow_trace, outside the lock: "for span in self.span_dict.values()"
\* creates the iterator over the dictionary as it is now.
PopIter(th) ==
    /\ pc[th] = "pop_iter"
    /\ local' = [local EXCEPT ![th].iter = DOMAIN traceObj[local[th].trace_id].span_dict]
    /\ pc' = [pc EXCEPT ![th] = "pop_return"]
    /\ UNCHANGED <<overlapped, ncalls, traces, traceObj, request_id_to_trace_id, trace_locks,
                   lockOwner, call, ret, added, evicted, received, regDone, regAtPop>>
    /\ UNCHANGED notTM

\* pop_trace: return trace.to_mlflow_trace() if trace else None. The loop
\* of to_mlflow_trace calls into each span, so other threads run between
\* two steps of the iterator; the iterator raises RuntimeError ("dictionary
\* changed size during iteration") when a key was inserted meanwhile.
PopReturn(th) ==
    /\ pc[th] = "pop_return"
    /\ LET tid == local[th].trace_id
       IN IF local[th].found
          THEN IF DOMAIN traceObj[tid].span_dict = local[th].iter
               THEN /\ ret' = [ret EXCEPT ![th] = [kind |-> "trace", trace_id |-> tid,
                                                    spans |-> ToMlflowTrace(traceObj[tid])]]
                    /\ received' = [received EXCEPT ![tid] = @ + 1]
               ELSE /\ ret' = [ret EXCEPT ![th] = [NoRet EXCEPT !.kind = "RuntimeError",
                                                                  !.trace_id = tid]]
                    /\ UNCHANGED received
          ELSE /\ ret' = [ret EXCEPT ![th] = [NoRet EXCEPT !.kind = "None"]]
               /\ UNCHANGED received
    /\ call' = [call EXCEPT ![th] = NoCall]
    /\ local' = [local EXCEPT ![th] = NoLocal]
    /\ pc' = [pc EXCEPT ![th] = "idle"]
    /\ UNCHANGED <<overlapped, ncalls, traces, traceObj, request_id_to_trace_id, trace_locks,
                   lockOwner, added, evicted, regDone, regAtPop>>
    /\ UNCHANGED notTM

\* Another thread is inside a registration of a different span of the trace
\* of th's call.
Overlaps(th) ==
    \E o \in Threads \ {th} :
        /\ pc[o] # "idle"
        /\ call[o].op \in {"update_span", "get_or_create"}
        /\ call[o].trace_id = call[th].trace_id
        /\ call[o].span_id # call[th].span_id

\* update_span: if trace := self._traces.get(trace_id):
\*                  trace.span_dict[span.span_id] = span
\* The mutant registers the trace when it is missing.
UpdateSpanBodyCreating(th) ==
    /\ pc[th] = "upd_body"
    /\ LET tid == local[th].trace_id
       IN /\ traces' = traces \cup {tid}
          /\ traceObj' = [traceObj EXCEPT ![tid].span_dict =
                             SpanDictPut(IF tid \in traces THEN @ ELSE <<>>,
                                         call[th].span_id, SpanOf(call[th]))]
          /\ local' = [local EXCEPT ![th].found = TRUE]
          /\ overlapped' = IF Overlaps(th) THEN overlapped \cup {tid} ELSE overlapped
    /\ pc' = [pc EXCEPT ![th] = "release"]
    /\ UNCHANGED <<ncalls, request_id_to_trace_id, trace_locks, lockOwner, call,
                   ret, added, evicted, received, regDone, regAtPop>>
    /\ UNCHANGED notTM
UpdateSpanBody(th) ==
    /\ pc[th] = "upd_body"
    /\ LET tid == local[th].trace_id
       IN IF tid \in traces
          THEN /\ traceObj' = [traceObj EXCEPT ![tid].span_dict =
                                  SpanDictPut(@, call[th].span_id, SpanOf(call[th]))]
               /\ local' = [local EXCEPT ![th].found = TRUE]
               /\ overlapped' = IF Overlaps(th) THEN overlapped \cup {tid} ELSE overlapped
          ELSE UNCHANGED <<traceObj, local, overlapped>>
    /\ pc' = [pc EXCEPT ![th] = "release"]
    /\ UNCHANGED <<ncalls, traces, request_id_to_trace_id, trace_locks, lockOwner, call,
                   ret, added, evicted, received, regDone, regAtPop>>
    /\ UNCHANGED notTM

\* add_trace, update_span: the with-block is left and the method returns
Release(th) ==
    /\ pc[th] = "release"
    /\ lockOwner' = [lockOwner EXCEPT ![local[th].lock] = NoneId]
    /\ local' = [local EXCEPT ![th] = NoLocal]
    /\ call' = [call EXCEPT ![th] = NoCall]
    /\ ret' = [ret EXCEPT ![th] = [NoRet EXCEPT !.kind = IF local[th].found THEN "ok" ELSE "skipped"]]
    /\ regDone' = IF call[th].op = "update_span" /\ local[th].found
                  THEN [regDone EXCEPT ![call[th].trace_id] = @ \cup {call[th].span_id}]
                  ELSE regDone
    /\ pc' = [pc EXCEPT ![th] = "idle"]
    /\ UNCHANGED <<overlapped, ncalls, traces, traceObj, request_id_to_trace_id, trace_locks,
                   added, evicted, received, regAtPop>>
    /\ UNCHANGED notTM

\* get_or_create_mlflow_span: with self._lock.acquire(trace_id):
\*                                trace = self._traces.get(trace_id)
GocGet(th) ==
    /\ pc[th] = "goc_get"
    /\ local' = [local EXCEPT ![th].found = local[th].trace_id \in traces]
    /\ pc' = [pc EXCEPT ![th] = "goc_release"]
    /\ UNCHANGED <<overlapped, ncalls, traces, traceObj, request_id_to_trace_id, trace_locks,
                   lockOwner, call, ret, added, evicted, received, regDone, regAtPop>>
    /\ UNCHANGED notTM

GocRelease(th) ==
    /\ pc[th] = "goc_release"
    /\ lockOwner' = [lockOwner EXCEPT ![local[th].lock] = NoneId]
    /\ local' = [local EXCEPT ![th].lock = NoneId]
    /\ pc' = [pc EXCEPT ![th] = "goc_lookup"]
    /\ UNCHANGED <<overlapped, ncalls, traces, traceObj, request_id_to_trace_id, trace_locks, call,
                   ret, added, evicted, received, regDone, regAtPop>>
    /\ UNCHANGED notTM

\* get_or_create_mlflow_span, outside the lock:
\*   if not trace: return NoOpMlflowSpanWrapper()
\*   mlflow_span = trace.span_dict.get(span_id)
GocLookup(th) ==
    /\ pc[th] = "goc_lookup"
    /\ LET tid == local[th].trace_id
       IN IF ~local[th].found
          THEN /\ ret' = [ret EXCEPT ![th] = [NoRet EXCEPT !.kind = "noop"]]
               /\ pc' = [pc EXCEPT ![th] = "idle"]
               /\ call' = [call EXCEPT ![th] = NoCall]
               /\ local' = [local EXCEPT ![th] = NoLocal]
               /\ UNCHANGED regDone
          ELSE IF call[th].span_id \in DOMAIN traceObj[tid].span_dict
               THEN /\ ret' = [ret EXCEPT ![th] = [NoRet EXCEPT !.kind = "ok"]]
                    /\ regDone' = [regDone EXCEPT ![tid] = @ \cup {call[th].span_id}]
                    /\ pc' = [pc EXCEPT ![th] = "idle"]
                    /\ call' = [call EXCEPT ![th] = NoCall]
                    /\ local' = [local EXCEPT ![th] = NoLocal]
               ELSE /\ pc' = [pc EXCEPT ![th] = "goc_insert"]
                    /\ UNCHANGED <<ret, regDone, call, local>>
    /\ UNCHANGED <<overlapped, ncalls, traces, traceObj, request_id_to_trace_id, trace_locks,
                   lockOwner, added, evicted, received, regAtPop>>
    /\ UNCHANGED notTM

\* get_or_create_mlflow_span, outside the lock:
\*   trace.span_dict[mlflow_span.span_id] = mlflow_span; return mlflow_span
GocInsert(th) ==
    /\ pc[th] = "goc_insert"
    /\ LET tid == local[th].trace_id
       IN /\ traceObj' = [traceObj EXCEPT ![tid].span_dict =
                             SpanDictPut(@, call[th].span_id, SpanOf(call[th]))]
          /\ regDone' = [regDone EXCEPT ![tid] = @ \cup {call[th].span_id}]
          /\ overlapped' = IF Overlaps(th) THEN overlapped \cup {tid} ELSE overlapped
    /\ ret' = [ret EXCEPT ![th] = [NoRet EXCEPT !.kind = "ok"]]
    /\ pc' = [pc EXCEPT ![th] = "idle"]
    /\ call' = [call EXCEPT ![th] = NoCall]
    /\ local' = [local EXCEPT ![th] = NoLocal]
    /\ UNCHANGED <<ncalls, traces, request_id_to_trace_id, trace_locks, lockOwner,
                   added, evicted, received, regAtPop>>
    /\ UNCHANGED notTM

\* The TTLCache drops a trace whose time to live has passed (or the oldest
\* one when it is full).
Evict(t) ==
    /\ t \in traces
    /\ traces' = traces \ {t}
    /\ evicted' = evicted \cup {t}
    /\ UNCHANGED <<overlapped, ncalls, traceObj, request_id_to_trace_id, trace_locks, lockOwner, pc,
                   call, local, ret, added, received, regDone, regAtPop>>
    /\ UNCHANGED notTM

NextTM ==
    \/ \E th \in Threads, t \in TraceIds : CallAddTrace(th, t)
    \/ \E th \in Threads, r \in RequestIds : CallPopTrace(th, r)
    \/ \E th \in Threads, t \in TraceIds, sid \in SpanIds :
           \E op \in {"update_span", "get_or_create"} : CallRegister(th, op, t, sid)
    \/ \E th \in Threads : PopReadIndex(th)
    \/ \E th \in Threads : AcquireLookup(th)
    \/ \E th \in Threads : AcquireLock(th)
    \/ \E th \in Threads : AddPut(th)
    \/ \E th \in Threads : AddIndex(th)
    \/ \E th \in Threads : PopBody(th)
    \/ \E th \in Threads : PopBodyExpired(th)
    \/ \E th \in Threads : PopDeleteLock(th)
    \/ \E th \in Threads : PopRelease(th)
    \/ \E th \in Threads : PopIter(th)
    \/ \E th \in Threads : PopReturn(th)
    \/ \E th \in Threads : UpdateSpanBody(th)
    \/ \E th \in Threads : Release(th)
    \/ \E th \in Threads : GocGet(th)
    \/ \E th \in Threads : GocRelease(th)
    \/ \E th \in Threads : GocLookup(th)
    \/ \E th \in Threads : GocInsert(th)
    \/ \E t \in TraceIds : Evict(t)

-----------------------------------------------------------------------------
(***************************************************************************)
(* Part II: the asynchronous trace task queue                              *)
(***************************************************************************)
\* The flush calls of a run.
MaxFlush == 2

\* _MAX_RETRY
MAX_RETRY == 5

\* ThreadPoolExecutor(max_workers=5)
MaxWorkers == 5

StartTask(t) == [kind |-> "start", trace |-> t]
EndTask(t) == [kind |-> "end", trace |-> t]
Tasks == {StartTask(t) : t \in TraceIds} \cup {EndTask(t) : t \in TraceIds}

\* The tasks the application has put so far.
PutSoFar == {StartTask(t) : t \in {x \in TraceIds : appPc[x] # "new"}}
                \cup {EndTask(t) : t \in {x \in TraceIds : appPc[x] = "ended"}}

InitAsync ==
    /\ queue = <<>>
    /\ is_activated = FALSE
    /\ stop_event = FALSE
    /\ drain = "none"
    /\ workerPool = "none"
    /\ statusPool = "none"
    /\ workItems = {}
    /\ inBackend = {}
    /\ waiters = {}
    /\ completion = {}
    /\ failed = {}
    /\ retry = [t \in TraceIds |-> 0]
    /\ registered = {}
    /\ futureReady = {}
    /\ exported = [t \in TraceIds |-> 0]
    /\ appPc = [t \in TraceIds |-> "new"]
    /\ flushPc = "idle"
    /\ keep_running = TRUE
    /\ nflush = 0
    /\ putBeforeFlush = {}
    /\ backendFailed = {}
    /\ putFailed = {}

\* AsyncTraceTaskQueue.put: activate() on first use (_set_up_logging_thread
\* starts the drain thread and creates both pools), self._queue.put(task),
\* self._trace_status_check_threadpool.submit(self._wait_for_task, task).
\* submit raises RuntimeError on a pool that was shut down.
Put(task) ==
    /\ is_activated' = TRUE
    /\ drain' = IF is_activated THEN drain ELSE "running"
    /\ workerPool' = IF is_activated THEN workerPool ELSE "running"
    /\ statusPool' = IF is_activated THEN statusPool ELSE "running"
    /\ queue' = Append(queue, task)
    /\ IF is_activated /\ statusPool = "shutdown"
       THEN /\ putFailed' = putFailed \cup {task}
            /\ UNCHANGED waiters
       ELSE /\ waiters' = waiters \cup {task}
            /\ UNCHANGED putFailed

\* MlflowSpanProcessor.on_start for the first span of trace t with
\* asynchronous logging: _start_trace puts a StartTraceTask and returns the
\* trace info with a RequestIdFuture, which register_trace stores. When put
\* raises, the trace is not registered.
OnStart(t) ==
    /\ appPc[t] = "new"
    /\ Put(StartTask(t))
    /\ registered' = IF StartTask(t) \in putFailed' THEN registered
                     ELSE registered \cup {t}
    /\ appPc' = [appPc EXCEPT ![t] = "started"]
    /\ UNCHANGED <<stop_event, workItems, inBackend, completion, failed, retry,
                   futureReady, exported, flushPc, keep_running, nflush,
                   putBeforeFlush, backendFailed>>
    /\ UNCHANGED notAsync

\* MlflowSpanProcessor.on_end for the root span of trace t with asynchronous
\* logging: puts an EndTraceTask.
OnEnd(t) ==
    /\ appPc[t] = "started"
    /\ Put(EndTask(t))
    /\ appPc' = [appPc EXCEPT ![t] = "ended"]
    /\ UNCHANGED <<stop_event, workItems, inBackend, completion, failed, retry,
                   registered, futureReady, exported, flushPc, keep_running,
                   nflush, putBeforeFlush, backendFailed>>
    /\ UNCHANGED notAsync

\* _logging_loop / _handle_task: the drain thread takes the next task and
\* submits _handle(task) to the worker pool.
DrainTake ==
    /\ drain = "running"
    /\ queue # <<>>
    /\ queue' = Tail(queue)
    /\ workItems' = workItems \cup {Head(queue)}
    /\ UNCHANGED <<is_activated, stop_event, drain, workerPool, statusPool,
                   inBackend, waiters, completion, failed, retry, registered,
                   futureReady, exported, appPc, flushPc, keep_running, nflush,
                   putBeforeFlush, backendFailed, putFailed>>
    /\ UNCHANGED notAsync

\* _logging_loop: the stop event is set and self._queue.empty() holds, so
\* the drain thread ends.
DrainExit ==
    /\ drain = "running"
    /\ stop_event
    /\ queue = <<>>
    /\ drain' = "exited"
    /\ UNCHANGED <<queue, is_activated, stop_event, workerPool, statusPool,
                   workItems, inBackend, waiters, completion, failed, retry,
                   registered, futureReady, exported, appPc, flushPc,
                   keep_running, nflush, putBeforeFlush, backendFailed, putFailed>>
    /\ UNCHANGED notAsync

\* A worker of the pool is free.
WorkerFree == Cardinality(inBackend) < MaxWorkers

\* _handle(task) for a StartTraceTask: StartTraceTask.handle calls
\* self._client._start_tracked_trace(...), the backend call.
WorkerStartBegin(t) ==
    /\ StartTask(t) \in workItems
    /\ WorkerFree
    /\ workItems' = workItems \ {StartTask(t)}
    /\ inBackend' = inBackend \cup {t}
    /\ UNCHANGED <<queue, is_activated, stop_event, drain, workerPool, statusPool,
                   waiters, completion, failed, retry, registered, futureReady,
                   exported, appPc, flushPc, keep_running, nflush,
                   putBeforeFlush, backendFailed, putFailed>>
    /\ UNCHANGED notAsync

\* The backend call returns: StartTraceTask.handle completes the
\* RequestIdFuture and _handle sets the completion event.
WorkerStartFinish(t) ==
    /\ t \in inBackend
    /\ inBackend' = inBackend \ {t}
    /\ futureReady' = futureReady \cup {t}
    /\ completion' = completion \cup {StartTask(t)}
    /\ UNCHANGED <<queue, is_activated, stop_event, drain, workerPool, statusPool,
                   workItems, waiters, failed, retry, registered, exported,
                   appPc, flushPc, keep_running, nflush, putBeforeFlush,
                   backendFailed, putFailed>>
    /\ UNCHANGED notAsync

\* The backend call raises: the "except Exception" branch of _handle
\* formats its message with task.trace, an attribute no task has, so the
\* AttributeError leaves _handle before task.exception and the completion
\* event are set.
WorkerStartRaise(t) ==
    /\ t \in inBackend
    /\ inBackend' = inBackend \ {t}
    /\ backendFailed' = backendFailed \cup {t}
    /\ UNCHANGED <<queue, is_activated, stop_event, drain, workerPool, statusPool,
                   workItems, waiters, completion, failed, retry, registered,
                   futureReady, exported, appPc, flushPc, keep_running, nflush,
                   putBeforeFlush, putFailed>>
    /\ UNCHANGED notAsync

\* _handle(task) for an EndTraceTask, the request id not resolved yet:
\* EndTraceTask.handle raises RetryableTraceException; below _MAX_RETRY the
\* task is put back at once, at _MAX_RETRY it is given up.
WorkerEndRetry(t) ==
    /\ EndTask(t) \in workItems
    /\ WorkerFree
    /\ t \in registered /\ t \notin futureReady
    /\ workItems' = workItems \ {EndTask(t)}
    /\ IF retry[t] < MAX_RETRY
       THEN /\ retry' = [retry EXCEPT ![t] = @ + 1]
            /\ queue' = Append(queue, EndTask(t))
            /\ UNCHANGED <<failed, completion>>
       ELSE /\ failed' = failed \cup {EndTask(t)}
            /\ completion' = completion \cup {EndTask(t)}
            /\ UNCHANGED <<retry, queue>>
    /\ UNCHANGED <<is_activated, stop_event, drain, workerPool, statusPool,
                   inBackend, waiters, registered, futureReady, exported, appPc,
                   flushPc, keep_running, nflush, putBeforeFlush, backendFailed,
                   putFailed>>
    /\ UNCHANGED notAsync

\* _handle(task) for an EndTraceTask, the request id resolved (or the trace
\* not registered): EndTraceTask.handle returns without exporting when the
\* trace manager has no trace, else it finalizes the trace info and calls
\* the on_end handler, whose export pops the trace.
WorkerEndHandle(t) ==
    /\ EndTask(t) \in workItems
    /\ WorkerFree
    /\ ~(t \in registered /\ t \notin futureReady)
    /\ workItems' = workItems \ {EndTask(t)}
    /\ exported' = IF t \in registered THEN [exported EXCEPT ![t] = @ + 1]
                   ELSE exported
    /\ registered' = registered \ {t}
    /\ completion' = completion \cup {EndTask(t)}
    /\ UNCHANGED <<queue, is_activated, stop_event, drain, workerPool, statusPool,
                   inBackend, waiters, failed, retry, futureReady, appPc,
                   flushPc, keep_running, nflush, putBeforeFlush, backendFailed,
                   putFailed>>
    /\ UNCHANGED notAsync

\* flush(keep_running): self._stop_data_logging_thread_event.set(), then
\* self._trace_logging_thread.join() blocks.
FlushCall(kr) ==
    /\ flushPc \in {"idle", "done"}
    /\ is_activated
    /\ nflush < MaxFlush
    /\ nflush' = nflush + 1
    /\ keep_running' = kr
    /\ putBeforeFlush' = PutSoFar
    /\ stop_event' = TRUE
    /\ flushPc' = "join"
    /\ UNCHANGED <<queue, is_activated, drain, workerPool, statusPool, workItems,
                   inBackend, waiters, completion, failed, retry, registered,
                   futureReady, exported, appPc, backendFailed, putFailed>>
    /\ UNCHANGED notAsync

\* flush: join() returns when the drain thread has ended; then
\* self._trace_logging_worker_threadpool.shutdown(wait=True) marks the pool
\* shut down and blocks.
FlushJoined ==
    /\ flushPc = "join"
    /\ drain # "running"
    /\ workerPool' = "shutdown"
    /\ flushPc' = "wait_workers"
    /\ UNCHANGED <<queue, is_activated, stop_event, drain, statusPool, workItems,
                   inBackend, waiters, completion, failed, retry, registered,
                   futureReady, exported, appPc, keep_running, nflush,
                   putBeforeFlush, backendFailed, putFailed>>
    /\ UNCHANGED notAsync

\* flush: the worker pool has run every submitted _handle; then
\* self._trace_status_check_threadpool.shutdown(wait=True) marks the pool
\* shut down and blocks.
FlushWorkersDone ==
    /\ flushPc = "wait_workers"
    /\ workItems = {} /\ inBackend = {}
    /\ statusPool' = "shutdown"
    /\ flushPc' = "wait_status"
    /\ UNCHANGED <<queue, is_activated, stop_event, drain, workerPool, workItems,
                   inBackend, waiters, completion, failed, retry, registered,
                   futureReady, exported, appPc, keep_running, nflush,
                   putBeforeFlush, backendFailed, putFailed>>
    /\ UNCHANGED notAsync

\* flush: every _wait_for_task has returned (its task's completion event is
\* set); the stop event is cleared and, with keep_running, a new drain
\* thread and new pools are set up; flush returns.
FlushStatusDone ==
    /\ flushPc = "wait_status"
    /\ waiters \subseteq completion
    /\ stop_event' = FALSE
    /\ waiters' = {}
    /\ IF keep_running
       THEN drain' = "running" /\ workerPool' = "running" /\ statusPool' = "running"
       ELSE UNCHANGED <<drain, workerPool, statusPool>>
    /\ flushPc' = "done"
    /\ UNCHANGED <<queue, is_activated, workItems, inBackend, completion, failed,
                   retry, registered, futureReady, exported, appPc, keep_running,
                   nflush, putBeforeFlush, backendFailed, putFailed>>
    /\ UNCHANGED notAsync

NextAsync ==
    \/ \E t \in TraceIds : OnStart(t)
    \/ \E t \in TraceIds : OnEnd(t)
    \/ DrainTake
    \/ DrainExit
    \/ \E t \in TraceIds : WorkerStartBegin(t)
    \/ \E t \in TraceIds : WorkerStartFinish(t)
    \/ \E t \in TraceIds : WorkerStartRaise(t)
    \/ \E t \in TraceIds : WorkerEndRetry(t)
    \/ \E t \in TraceIds : WorkerEndHandle(t)
    \/ \E kr \in BOOLEAN : FlushCall(kr)
    \/ FlushJoined
    \/ FlushWorkersDone
    \/ FlushStatusDone
-----------------------------------------------------------------------------
(***************************************************************************)
(* Part III: the trace decorator                                           *)
(***************************************************************************)
\* The chunks a decorated generator yields at most.
MaxChunks == 2

\* The calls into the tracing protocol and the standard library that can
\* raise: starting the OpenTelemetry span, inspect.signature, the span's
\* set_attribute, the span's add_event and the span's end.
FaultPoints == {"start_span", "signature", "set_attribute", "add_event", "end"}

\* inspect.isgeneratorfunction(fn) or inspect.isasyncgenfunction(fn)
IsGeneratorFn(kind) == kind \in {"gen", "agen"}

FnKinds == {"sync", "async", "gen", "agen"}

NoFn == [kind |-> "none", attrs |-> FALSE, chunks |-> 0, raises |-> FALSE]

\* What a call of the undecorated function gives its caller: a function
\* returns a value or raises; a generator yields its chunks and then stops
\* or raises.
Unwrapped(fn) ==
    [chunks |-> fn.chunks,
     result |-> IF fn.raises THEN "user_exc"
                ELSE IF IsGeneratorFn(fn.kind) THEN "stop" ELSE "value"]

\* A mutator of the live span that stores through set_attribute raises; the
\* mutators of NoOpSpan do nothing.
SetAttributeRaises == wSpan = "live" /\ "set_attribute" \in wFaults

\* span.add_event raises.
AddEventRaises == wSpan = "live" /\ "add_event" \in wFaults

\* mlflow_span.end() inside its try/except: the span is ended unless it is
\* a NoOpSpan or the end raised.
EndGuarded == wSpan = "live" /\ "end" \notin wFaults

InitWrap ==
    /\ wFn = NoFn
    /\ wFaults = {}
    /\ wPc = "idle"
    /\ wSpan = "none"
    /\ wEnded = FALSE
    /\ wYielded = 0
    /\ wPending = "none"
    /\ wResult = "none"
    /\ wFnCalls = 0

\* The caller calls the decorated function; decorator() chose the wrapper by
\* the kind of fn.
WCall(kind, attrs, chunks, raises, faults) ==
    /\ wPc = "idle"
    /\ wFn' = [kind |-> kind, attrs |-> attrs, chunks |-> chunks, raises |-> raises]
    /\ wFaults' = faults
    /\ wPc' = IF IsGeneratorFn(kind) THEN "g_start" ELSE "f_start"
    /\ UNCHANGED <<wSpan, wEnded, wYielded, wPending, wResult, wFnCalls>>
    /\ UNCHANGED notWrap

\* _WrappingContext.__enter__ runs the coroutine up to its first statement
\* inside "with start_span(...)": start_span creates the span and sets the
\* decorator's attributes inside try/except, and yields a NoOpSpan when
\* either raises.
WStartSpan ==
    /\ wPc = "f_start"
    /\ wSpan' = IF \/ "start_span" \in wFaults
                   \/ (wFn.attrs /\ "set_attribute" \in wFaults)
                THEN "noop" ELSE "live"
    /\ wPc' = "f_set_attribute"
    /\ UNCHANGED <<wFn, wFaults, wEnded, wYielded, wPending, wResult, wFnCalls>>
    /\ UNCHANGED notWrap

\* span.set_attribute(SpanAttributeKey.FUNCTION_NAME, fn.__name__)
WSetAttribute ==
    /\ wPc = "f_set_attribute"
    /\ IF SetAttributeRaises
       THEN wPending' = "tracing_exc" /\ wPc' = "f_exit"
       ELSE wPc' = "f_set_inputs" /\ UNCHANGED wPending
    /\ UNCHANGED <<wFn, wFaults, wSpan, wEnded, wYielded, wResult, wFnCalls>>
    /\ UNCHANGED notWrap

\* span.set_inputs(capture_function_input_args(fn, args, kwargs)):
\* capture_function_input_args returns {} when inspect.signature raises.
WSetInputs ==
    /\ wPc = "f_set_inputs"
    /\ IF SetAttributeRaises
       THEN wPending' = "tracing_exc" /\ wPc' = "f_exit"
       ELSE wPc' = "f_call" /\ UNCHANGED wPending
    /\ UNCHANGED <<wFn, wFaults, wSpan, wEnded, wYielded, wResult, wFnCalls>>
    /\ UNCHANGED notWrap

\* fn(*args, **kwargs), awaited when fn is a coroutine function.
WCallFn ==
    /\ wPc = "f_call"
    /\ wFnCalls' = wFnCalls + 1
    /\ IF wFn.raises
       THEN wPending' = "user_exc" /\ wPc' = "f_exit"
       ELSE wPending' = "value" /\ wPc' = "f_set_outputs"
    /\ UNCHANGED <<wFn, wFaults, wSpan, wEnded, wYielded, wResult>>
    /\ UNCHANGED notWrap

\* wrapping_coro.send(result): span.set_outputs(result), then yield result.
WSetOutputs ==
    /\ wPc = "f_set_outputs"
    /\ wPending' = IF SetAttributeRaises THEN "tracing_exc" ELSE wPending
    /\ wPc' = "f_exit"
    /\ UNCHANGED <<wFn, wFaults, wSpan, wEnded, wYielded, wResult, wFnCalls>>
    /\ UNCHANGED notWrap

\* _WrappingContext.__exit__: an exception is thrown into the coroutine, so
\* that start_span ends the span (inside try/except) and the exception goes
\* on to the caller; else the coroutine is closed, the span is ended and
\* the wrapper returns the result.
WExit ==
    /\ wPc = "f_exit"
    /\ wEnded' = EndGuarded
    /\ wResult' = wPending
    /\ wPc' = "done"
    /\ UNCHANGED <<wFn, wFaults, wSpan, wYielded, wPending, wFnCalls>>
    /\ UNCHANGED notWrap

\* The first next() on the wrapper of a generator function:
\* _start_stream_span captures the inputs and starts the span with them
\* inside try/except (NoOpSpan when anything raises), then
\* generator = fn(*args, **kwargs).
GStartSpan ==
    /\ wPc = "g_start"
    /\ wSpan' = IF "start_span" \in wFaults \/ "set_attribute" \in wFaults
                THEN "noop" ELSE "live"
    /\ wFnCalls' = wFnCalls + 1
    /\ wPc' = "g_next"
    /\ UNCHANGED <<wFn, wFaults, wEnded, wYielded, wPending, wResult>>
    /\ UNCHANGED notWrap

\* with safe_set_span_in_context(span): value = next(generator), or
\* await generator.__anext__(): a chunk, the end of the stream, or the
\* generator's exception.
GNext ==
    /\ wPc = "g_next"
    /\ wPc' = IF wYielded < wFn.chunks THEN "g_chunk"
              ELSE IF wFn.raises THEN "g_error" ELSE "g_stop"
    /\ UNCHANGED <<wFn, wFaults, wSpan, wEnded, wYielded, wPending, wResult, wFnCalls>>
    /\ UNCHANGED notWrap

\* outputs.append(value); _record_chunk_event (try/except around
\* span.add_event); yield value.
GChunk ==
    /\ wPc = "g_chunk"
    /\ wYielded' = wYielded + 1
    /\ wPc' = "g_next"
    /\ UNCHANGED <<wFn, wFaults, wSpan, wEnded, wPending, wResult, wFnCalls>>
    /\ UNCHANGED notWrap

\* except Exception as e: _end_stream_span(span, error=e) calls
\* span.add_event(SpanEvent.from_exception(error)) and ends the span with
\* status ERROR; then raise e.
GError ==
    /\ wPc = "g_error"
    /\ IF AddEventRaises
       THEN wResult' = "tracing_exc" /\ UNCHANGED wEnded
       ELSE wResult' = "user_exc" /\ wEnded' = EndGuarded
    /\ wPc' = "done"
    /\ UNCHANGED <<wFn, wFaults, wSpan, wYielded, wPending, wFnCalls>>
    /\ UNCHANGED notWrap

\* except StopIteration: break; _end_stream_span(span, outputs,
\* output_reducer) reduces the outputs inside try/except and ends the span;
\* the wrapper returns.
GStop ==
    /\ wPc = "g_stop"
    /\ wEnded' = EndGuarded
    /\ wResult' = "stop"
    /\ wPc' = "done"
    /\ UNCHANGED <<wFn, wFaults, wSpan, wYielded, wPending, wFnCalls>>
    /\ UNCHANGED notWrap

NextWrap ==
    \/ \E kind \in FnKinds, attrs \in BOOLEAN, raises \in BOOLEAN,
          faults \in SUBSET FaultPoints :
           \E chunks \in (IF IsGeneratorFn(kind) THEN 0..MaxChunks ELSE {0}) :
               WCall(kind, attrs, chunks, raises, faults)
    \/ WStartSpan
    \/ WSetAttribute
    \/ WSetInputs
    \/ WCallFn
    \/ WSetOutputs
    \/ WExit
    \/ GStartSpan
    \/ GNext
    \/ GChunk
    \/ GError
    \/ GStop

-----------------------------------------------------------------------------
(***************************************************************************)
(* Part IV: add_trace and _merge_trace                                     *)
(***************************************************************************)
\* The spans of an incoming trace at most.
MaxIncoming == 2

\* The local trace with its root span and a child, and the trace and span
\* that add_trace starts when there is no target.
LocalTrace == 1
LocalRoot == 1
LocalChild == 2
SynthTrace == 2
SynthSpan == 3

\* The span ids of incoming traces; one of them is also a local span id.
IncomingIds == {LocalChild} \cup {10 + i : i \in 1..MaxIncoming}

\* A span as the registry holds it.
SpanRec(sid, tid, rid, pid) ==
    [span_id |-> sid, trace_id |-> tid, request_id |-> rid, parent_id |-> pid]

LocalSpanDict ==
    (LocalRoot :> SpanRec(LocalRoot, LocalTrace, RequestIdOf(LocalTrace), NoneId))
        @@ (LocalChild :> SpanRec(LocalChild, LocalTrace, RequestIdOf(LocalTrace), LocalRoot))

\* The spans of a trace as a remote service sends them: span id and parent
\* id, in the order they were saved; span ids are unique within a trace.
IncomingSpans ==
    {s \in UNION {[1..n -> [span_id : IncomingIds, parent_id : IncomingIds \cup {NoneId}]] :
                      n \in 1..MaxIncoming} :
        \A i, j \in DOMAIN s : i # j => s[i].span_id # s[j].span_id}

\* TraceStatus.end_statuses()
EndStatuses == {"OK", "ERROR"}

\* A dictionary without keys.
EmptyDict == [k \in {} |-> 0]

NoInfo == [tags |-> EmptyDict, request_metadata |-> EmptyDict]

\* The tags and request metadata of the receiving trace and of the incoming
\* trace of a call: none, or some with a key the two traces share ("food",
\* "user").
OwnInfos ==
    {NoInfo,
     [tags |-> [k \in {"vegetable", "food"} |-> 1],
      request_metadata |-> [k \in {"user"} |-> 1]]}
IncomingInfos ==
    {[tags |-> [k \in {"fruit"} |-> 2], request_metadata |-> EmptyDict],
     [tags |-> [k \in {"fruit", "food"} |-> 2],
      request_metadata |-> [k \in {"user", "host"} |-> 2]]}

NoTrace == [status |-> "none", spans |-> <<>>, info |-> NoInfo]

\* {**first, **second}: the keys of both, the value of `second` for a key
\* of both.
DictUnpackFirstWins(first, second) ==
    [k \in DOMAIN first \cup DOMAIN second |->
        IF k \in DOMAIN first THEN first[k] ELSE second[k]]
DictUnpack(first, second) ==
    [k \in DOMAIN first \cup DOMAIN second |->
        IF k \in DOMAIN second THEN second[k] ELSE first[k]]

\* The end of _merge_trace: the tags and the request metadata of the parent
\* trace after the merge.
MergeInfo(parent_info, trace_info) ==
    [tags |-> DictUnpack(trace_info.tags, parent_info.tags),
     request_metadata |-> DictUnpack(trace_info.request_metadata,
                                     parent_info.request_metadata)]

\* The trace id a request id was registered for (_request_id_to_trace_id).
TraceOfRequest(request_id) == request_id - 100

\* register_trace(trace_id, trace_info): a new, empty aggregate.
RegisterTrace(reg, tid) ==
    [x \in (DOMAIN reg) \cup {tid} |-> IF x = tid THEN <<>> ELSE reg[x]]

\* register_span(span): the span is put into the aggregate of its trace
\* under its span id; nothing happens when the trace is not registered.
RegisterSpan(reg, span) ==
    IF span.trace_id \in DOMAIN reg
    THEN [reg EXCEPT ![span.trace_id] = SpanDictPut(@, span.span_id, span)]
    ELSE reg

\* pop_trace: the registry without the trace.
RemoveTrace(reg, tid) == [x \in (DOMAIN reg) \ {tid} |-> reg[x]]

\* parent_span_id = span.parent_id or target_parent_span_id
MergeParentAlwaysTarget(span, target_parent_span_id) == target_parent_span_id
MergeParent(span, target_parent_span_id) ==
    IF span.parent_id # NoneId THEN span.parent_id ELSE target_parent_span_id

\* LiveSpan.from_immutable_span(span, parent_span_id, request_id, trace_id)
FromImmutableSpan(span, parent_span_id, request_id, trace_id) ==
    SpanRec(span.span_id, trace_id, request_id, parent_span_id)

\* The loop of _merge_trace from span i on: each span is cloned under its
\* parent and registered; a span whose parent get_span_from_id does not find
\* raises the usage error and leaves the clones made so far registered.
RECURSIVE MergeSpans(_, _, _, _, _, _)
MergeSpans(spans, i, span_dict, target_request_id, target_parent_span_id, new_trace_id) ==
    IF i > Len(spans)
    THEN [span_dict |-> span_dict, raised |-> FALSE]
    ELSE LET parent_span_id == MergeParent(spans[i], target_parent_span_id)
             cloned_span == FromImmutableSpan(spans[i], parent_span_id,
                                              target_request_id, new_trace_id)
         IN IF parent_span_id \notin DOMAIN span_dict
            THEN [span_dict |-> span_dict, raised |-> TRUE]
            ELSE MergeSpans(spans, i + 1,
                            SpanDictPut(span_dict, cloned_span.span_id, cloned_span),
                            target_request_id, target_parent_span_id, new_trace_id)

\* _merge_trace(trace, target_request_id, target_parent_span_id)
MergeTrace(reg, trace, target_request_id, target_parent_span_id) ==
    LET tid == TraceOfRequest(target_request_id)
    IN IF tid \notin DOMAIN reg
       THEN [reg |-> reg, result |-> "skipped"]
       ELSE IF target_parent_span_id \notin DOMAIN reg[tid]
       THEN [reg |-> reg, result |-> "key_error"]
       ELSE LET m == MergeSpans(trace.spans, 1, reg[tid], target_request_id,
                                target_parent_span_id,
                                reg[tid][target_parent_span_id].trace_id)
            IN [reg |-> [reg EXCEPT ![tid] = m.span_dict],
                result |-> IF m.raised THEN "usage_error" ELSE "merged"]

InitMerge ==
    /\ mgPc = "idle"
    /\ mgTrace = NoTrace
    /\ mgTarget = NoneId
    /\ mgActive = NoneId
    /\ mgReg = <<>>
    /\ mgExported = {}
    /\ mgResult = "none"
    /\ mgInfo = <<>>

\* add_trace(trace, target) is called; the local trace is registered (then a
\* span of it may be active) or was exported before.
MgCall(status, spans, info, target, active, regd, own) ==
    /\ mgPc = "idle"
    /\ active # NoneId => regd
    /\ mgTrace' = [status |-> status, spans |-> spans, info |-> info]
    /\ mgTarget' = target
    /\ mgActive' = active
    /\ mgReg' = IF regd THEN (LocalTrace :> LocalSpanDict) ELSE <<>>
    /\ mgInfo' = IF regd THEN (LocalTrace :> own) ELSE <<>>
    /\ mgPc' = "called"
    /\ UNCHANGED <<mgExported, mgResult>>
    /\ UNCHANGED notMerge

\* Any call of add_trace.
MgCallAddTrace ==
    /\ mgPc = "idle"
    /\ \E status \in EndStatuses \cup {"IN_PROGRESS"}, spans \in IncomingSpans,
          info \in IncomingInfos, target \in {NoneId, LocalRoot, LocalChild},
          active \in {NoneId, LocalRoot, LocalChild}, regd \in BOOLEAN,
          own \in OwnInfos :
           MgCall(status, spans, info, target, active, regd, own)

\* add_trace: a trace that is not ended is a usage error. The mutant
\* accepts every trace.
MgValidateUnchecked ==
    /\ mgPc = "called"
    /\ mgPc' = "validated"
    /\ UNCHANGED <<mgResult, mgTrace, mgTarget, mgActive, mgReg, mgExported, mgInfo>>
    /\ UNCHANGED notMerge
MgValidate ==
    /\ mgPc = "called"
    /\ IF mgTrace.status \notin EndStatuses
       THEN mgResult' = "usage_error" /\ mgPc' = "done"
       ELSE mgPc' = "validated" /\ UNCHANGED mgResult
    /\ UNCHANGED <<mgTrace, mgTarget, mgActive, mgReg, mgExported, mgInfo>>
    /\ UNCHANGED notMerge

\* target_span := target or get_current_active_span()
MgTargetSpan == IF mgTarget # NoneId THEN mgTarget ELSE mgActive

\* add_trace with a target span: _merge_trace under it.
MgMergeUnderTarget ==
    /\ mgPc = "validated"
    /\ MgTargetSpan # NoneId
    /\ LET m == MergeTrace(mgReg, mgTrace, RequestIdOf(LocalTrace), MgTargetSpan)
       IN /\ mgReg' = m.reg
          /\ mgResult' = m.result
          /\ mgInfo' = IF m.result = "merged"
                       THEN [mgInfo EXCEPT ![LocalTrace] = MergeInfo(@, mgTrace.info)]
                       ELSE mgInfo
    /\ mgPc' = "done"
    /\ UNCHANGED <<mgTrace, mgTarget, mgActive, mgExported>>
    /\ UNCHANGED notMerge

\* add_trace without a target span: client.start_trace starts the root span
\* "Remote Trace <...>" of a new trace, _merge_trace merges under it, and
\* client.end_trace ends the root span, which exports the trace. The usage
\* error of _merge_trace leaves add_trace before end_trace.
MgMergeUnderNewRoot ==
    /\ mgPc = "validated"
    /\ MgTargetSpan = NoneId
    /\ LET root == SpanRec(SynthSpan, SynthTrace, RequestIdOf(SynthTrace), NoneId)
           started == RegisterSpan(RegisterTrace(mgReg, SynthTrace), root)
           m == MergeTrace(started, mgTrace, RequestIdOf(SynthTrace), SynthSpan)
           info == (SynthTrace :> NoInfo) @@ mgInfo
       IN /\ mgResult' = m.result
          /\ mgInfo' = IF m.result = "merged"
                       THEN [info EXCEPT ![SynthTrace] = MergeInfo(@, mgTrace.info)]
                       ELSE info
          /\ IF m.result = "merged"
             THEN /\ mgExported' = mgExported \cup {m.reg[SynthTrace]}
                  /\ mgReg' = RemoveTrace(m.reg, SynthTrace)
             ELSE /\ mgReg' = m.reg
                  /\ UNCHANGED mgExported
    /\ mgPc' = "done"
    /\ UNCHANGED <<mgTrace, mgTarget, mgActive>>
    /\ UNCHANGED notMerge

NextMerge ==
    \/ MgCallAddTrace
    \/ MgValidate
    \/ MgMergeUnderTarget
    \/ MgMergeUnderNewRoot

-----------------------------------------------------------------------------
(***************************************************************************)
(* Part V: spans, the active-span context and the span processor           *)
(***************************************************************************)
\* The OpenTelemetry spans of a run at most.
MaxOtelSpans == 3

\* trace_api.get_current_span()
CurrentOtelSpan(ctx) == IF ctx = <<>> THEN NoneId ELSE ctx[Len(ctx)]

\* InMemoryTraceManager.get_span_from_id(request_id, span_id)
GetSpanFromId(reg, request_id, span_id) ==
    IF /\ TraceOfRequest(request_id) \in DOMAIN reg
       /\ span_id \in DOMAIN reg[TraceOfRequest(request_id)]
    THEN span_id ELSE NoneId

\* get_current_active_span(): the current OpenTelemetry span, looked up in
\* the trace manager under the request id on_start stored in its attributes.
GetCurrentActiveSpan ==
    IF CurrentOtelSpan(sCtx) = NoneId THEN NoneId
    ELSE GetSpanFromId(sTraces, RequestIdOf(sSpans[CurrentOtelSpan(sCtx)].trace_id),
                       CurrentOtelSpan(sCtx))

\* tracer.start_span: a child has the trace id of its parent, a root span a
\* new one.
OtelTraceId(parent) ==
    IF parent = NoneId THEN sNextTrace + 1 ELSE sSpans[parent].trace_id

\* MlflowSpanProcessor.on_start: a trace id for which the trace manager has
\* no request id gets a new trace (_start_trace, register_trace), whether or
\* not the span is a root span.
ProcessorOnStart(reg, tid) == IF tid \in DOMAIN reg THEN reg ELSE RegisterTrace(reg, tid)

\* safe_set_span_in_context(span): entering attaches the span to the
\* context, leaving restores the context found on entering.
SafeSetSpanInContextEnter(ctx, span) == Append(ctx, span)
SafeSetSpanInContextExit(token, ctx) == token

\* The context in which the wrapper of a generator yields a chunk: the
\* with-block around next(generator) was left before.
CtxAtYieldInsideWith(token, ctx) == ctx
CtxAtYield(token, ctx) == SafeSetSpanInContextExit(token, ctx)

\* The completed trace of a remote service: MaxIncoming spans, each the
\* child of the one before.
RemoteTrace ==
    [status |-> "OK",
     spans |-> [i \in 1..MaxIncoming |-> [span_id |-> 10 + i,
                                parent_id |-> IF i = 1 THEN NoneId ELSE 10 + i - 1]]]

NoGen == [pc |-> "new", span |-> NoneId, token |-> <<>>, yielded |-> 0]

\* The generator's body is running and has left every span it entered.
InBodyTopLevel == sGen.pc = "running" /\ Len(sCtx) = Len(sGen.token) + 1

InitSpans ==
    /\ sSpans = <<>>
    /\ sNextTrace = 0
    /\ sTraces = <<>>
    /\ sCtx = <<>>
    /\ sConsumer = <<>>
    /\ sGen = NoGen
    /\ sExported = {}

\* An OpenTelemetry span is started under `parent`: on_start runs, and the
\* MLflow span made of it (with the given request id, else the one on_start
\* stored) is registered.
StartSpanS(parent, kind, given_request_id) ==
    LET sid == Len(sSpans) + 1
        tid == OtelTraceId(parent)
        rid == IF given_request_id # NoneId THEN given_request_id ELSE RequestIdOf(tid)
    IN /\ Len(sSpans) < MaxOtelSpans
       /\ sSpans' = Append(sSpans, [trace_id |-> tid, parent_id |-> parent,
                                    request_id |-> rid, kind |-> kind, open |-> TRUE])
       /\ sNextTrace' = IF parent = NoneId THEN sNextTrace + 1 ELSE sNextTrace
       /\ sTraces' = RegisterSpan(ProcessorOnStart(sTraces, tid),
                                  SpanRec(sid, tid, rid, parent))

\* Span.end(): the OpenTelemetry span ends and on_end runs, which does
\* nothing for a span with a parent and else has the exporter pop the trace.
\* The mutant's on_end does not look at the parent.
EndSpanSAnySpan(s) ==
    /\ sSpans' = [sSpans EXCEPT ![s].open = FALSE]
    /\ IF sSpans[s].trace_id \in DOMAIN sTraces
       THEN /\ sExported' = sExported \cup {sTraces[sSpans[s].trace_id]}
            /\ sTraces' = RemoveTrace(sTraces, sSpans[s].trace_id)
       ELSE UNCHANGED <<sExported, sTraces>>
EndSpanS(s) ==
    /\ sSpans' = [sSpans EXCEPT ![s].open = FALSE]
    /\ IF sSpans[s].parent_id = NoneId /\ sSpans[s].trace_id \in DOMAIN sTraces
       THEN /\ sExported' = sExported \cup {sTraces[sSpans[s].trace_id]}
            /\ sTraces' = RemoveTrace(sTraces, sSpans[s].trace_id)
       ELSE UNCHANGED <<sExported, sTraces>>

\* "with start_span(...)" is entered (also by a call of a decorated
\* function): the span is started under the current span and use_span
\* attaches it.
FluentEnter ==
    /\ sGen.pc = "running" => sGen.yielded < MaxChunks
    /\ StartSpanS(CurrentOtelSpan(sCtx), "fluent", NoneId)
    /\ sCtx' = Append(sCtx, Len(sSpans) + 1)
    /\ sConsumer' = IF sGen.pc = "running" THEN sConsumer
                    ELSE Append(sConsumer, Len(sSpans) + 1)
    /\ UNCHANGED <<sGen, sExported>>
    /\ UNCHANGED notSpans

\* "with start_span(...)" is left: use_span detaches the span and
\* mlflow_span.end() ends it. The generator's body leaves only spans it
\* entered in this step.
FluentExit ==
    /\ sCtx # <<>>
    /\ sSpans[CurrentOtelSpan(sCtx)].kind = "fluent"
    /\ IF sGen.pc = "running" THEN Len(sCtx) > Len(sGen.token) + 1
       ELSE sConsumer # <<>>
    /\ sCtx' = SubSeq(sCtx, 1, Len(sCtx) - 1)
    /\ sConsumer' = IF sGen.pc = "running" THEN sConsumer
                    ELSE SubSeq(sConsumer, 1, Len(sConsumer) - 1)
    /\ EndSpanS(CurrentOtelSpan(sCtx))
    /\ UNCHANGED <<sNextTrace, sGen>>
    /\ UNCHANGED notSpans

\* The first next() on a traced generator: _start_stream_span starts the
\* span under get_current_active_span() (a root span of a new trace when
\* there is none), and the first step of the body begins with the span
\* attached.
GenFirstNext ==
    /\ sGen.pc = "new"
    /\ StartSpanS(GetCurrentActiveSpan, "stream", NoneId)
    /\ sGen' = [pc |-> "running", span |-> Len(sSpans) + 1, token |-> sCtx,
                yielded |-> 0]
    /\ sCtx' = SafeSetSpanInContextEnter(sCtx, Len(sSpans) + 1)
    /\ UNCHANGED <<sConsumer, sExported>>
    /\ UNCHANGED notSpans

\* A later next(): the span is attached and the body goes on.
GenResume ==
    /\ sGen.pc = "suspended"
    /\ sGen' = [sGen EXCEPT !.pc = "running", !.token = sCtx]
    /\ sCtx' = SafeSetSpanInContextEnter(sCtx, sGen.span)
    /\ UNCHANGED <<sSpans, sNextTrace, sTraces, sConsumer, sExported>>
    /\ UNCHANGED notSpans

\* The body yields a chunk: the with-block is left, the chunk event is
\* recorded and the wrapper yields the chunk.
GenYield ==
    /\ InBodyTopLevel
    /\ sGen.yielded < MaxChunks
    /\ sCtx' = CtxAtYield(sGen.token, sCtx)
    /\ sGen' = [sGen EXCEPT !.pc = "suspended", !.yielded = @ + 1]
    /\ UNCHANGED <<sSpans, sNextTrace, sTraces, sConsumer, sExported>>
    /\ UNCHANGED notSpans

\* The body returns or raises: the with-block is left and _end_stream_span
\* ends the span.
GenFinish ==
    /\ InBodyTopLevel
    /\ sCtx' = SafeSetSpanInContextExit(sGen.token, sCtx)
    /\ sGen' = [sGen EXCEPT !.pc = "done"]
    /\ EndSpanS(sGen.span)
    /\ UNCHANGED <<sNextTrace, sConsumer>>
    /\ UNCHANGED notSpans

\* start_detached_span(name, parent_span=p): _start_detached_otel_span is
\* called without the parent, so the tracer starts the span in the current
\* context; with a parent span the MLflow span gets the parent's request id.
DetachedStart(p) ==
    /\ p # NoneId => (p \in DOMAIN sSpans /\ sSpans[p].open)
    /\ StartSpanS(CurrentOtelSpan(sCtx), "detached",
                  IF p = NoneId THEN NoneId ELSE sSpans[p].request_id)
    /\ UNCHANGED <<sCtx, sConsumer, sGen, sExported>>
    /\ UNCHANGED notSpans

\* end_span(span) for a detached span.
EndSpanDetached(s) ==
    /\ s \in DOMAIN sSpans
    /\ sSpans[s].kind = "detached"
    /\ sSpans[s].open
    /\ EndSpanS(s)
    /\ UNCHANGED <<sNextTrace, sCtx, sConsumer, sGen>>
    /\ UNCHANGED notSpans

\* add_trace(trace, target) with a target span, given or active:
\* _merge_trace under it. A failed lookup leaves the registry as it is.
AddTraceUnderSpan(target) ==
    /\ target # NoneId => target \in DOMAIN sSpans
    /\ LET target_span == IF target # NoneId THEN target ELSE GetCurrentActiveSpan
       IN /\ target_span # NoneId
          /\ sTraces' = MergeTrace(sTraces, RemoteTrace,
                                   sSpans[target_span].request_id, target_span).reg
    /\ UNCHANGED <<sSpans, sNextTrace, sCtx, sConsumer, sGen,
                   sExported>>
    /\ UNCHANGED notSpans

\* add_trace(trace) without a target span: the root span "Remote Trace
\* <...>" of a new trace is started, the trace is merged under it and the
\* root span is ended, which exports the new trace.
AddTraceNewRoot ==
    /\ GetCurrentActiveSpan = NoneId
    /\ Len(sSpans) < MaxOtelSpans
    /\ LET sid == Len(sSpans) + 1
           tid == sNextTrace + 1
           rid == RequestIdOf(tid)
           started == RegisterSpan(ProcessorOnStart(sTraces, tid),
                                   SpanRec(sid, tid, rid, NoneId))
           m == MergeTrace(started, RemoteTrace, rid, sid)
       IN /\ sSpans' = Append(sSpans, [trace_id |-> tid, parent_id |-> NoneId,
                                       request_id |-> rid, kind |-> "remote_root",
                                       open |-> FALSE])
          /\ sNextTrace' = tid
          /\ sExported' = sExported \cup {m.reg[tid]}
          /\ sTraces' = RemoveTrace(m.reg, tid)
    /\ UNCHANGED <<sCtx, sConsumer, sGen>>
    /\ UNCHANGED notSpans

NextSpans ==
    \/ FluentEnter
    \/ FluentExit
    \/ GenFirstNext
    \/ GenResume
    \/ GenYield
    \/ GenFinish
    \/ \E p \in 0..MaxOtelSpans : DetachedStart(p)
    \/ \E s \in 1..MaxOtelSpans : EndSpanDetached(s)
    \/ \E target \in 0..MaxOtelSpans : AddTraceUnderSpan(target)
    \/ AddTraceNewRoot

-----------------------------------------------------------------------------
(***************************************************************************)
(* Part VI: the start time of a span (MlflowSpanProcessor.on_start)        *)
(***************************************************************************)
\* The longest backend call and the longest span body, in clock ticks.
MaxLatency == 2
MaxWork == 2

\* on_start's last statement: span._start_time = time.time_ns()
KeepOtelStartTime(otel_start_time, now) == otel_start_time
AdjustedStartTime(otel_start_time, now) == now

InitClock ==
    /\ cNow = 1
    /\ cPc = "idle"
    /\ cFirst = FALSE
    /\ cAsync = FALSE
    /\ cStart = 0
    /\ cEnd = 0
    /\ cLatency = 0
    /\ cWork = 0

\* tracer.start_span(name, start_time=...): the span gets the given start
\* time, else the current time, and the processor's on_start is called.
CStartSpan(first, async, start_time_ns) ==
    /\ cPc = "idle"
    /\ cPc' = "on_start"
    /\ cFirst' = first
    /\ cAsync' = async
    /\ cStart' = IF start_time_ns # 0 THEN start_time_ns ELSE cNow
    /\ UNCHANGED <<cNow, cEnd, cLatency, cWork>>
    /\ UNCHANGED notClock

\* Time passes before the span is started.
CTickIdle ==
    /\ cPc = "idle"
    /\ cNow <= MaxWork
    /\ cNow' = cNow + 1
    /\ UNCHANGED <<cPc, cFirst, cAsync, cStart, cEnd, cLatency, cWork>>
    /\ UNCHANGED notClock

\* on_start: get_request_id_from_trace_id; a trace is started when there is
\* no request id.
COnStart ==
    /\ cPc = "on_start"
    /\ cPc' = IF cFirst THEN "start_trace" ELSE "stamp"
    /\ UNCHANGED <<cNow, cFirst, cAsync, cStart, cEnd, cLatency, cWork>>
    /\ UNCHANGED notClock

\* _start_trace: the StartTraceTask is put on the queue, or handled at once,
\* which calls the backend and returns after `latency` ticks.
CStartTrace(latency) ==
    /\ cPc = "start_trace"
    /\ cAsync => latency = 0
    /\ cNow' = cNow + latency
    /\ cLatency' = latency
    /\ cPc' = "stamp"
    /\ UNCHANGED <<cFirst, cAsync, cStart, cEnd, cWork>>
    /\ UNCHANGED notClock

\* on_start sets the request id attribute and the start time and returns.
CStamp ==
    /\ cPc = "stamp"
    /\ cStart' = AdjustedStartTime(cStart, cNow)
    /\ cPc' = "running"
    /\ UNCHANGED <<cNow, cFirst, cAsync, cEnd, cLatency, cWork>>
    /\ UNCHANGED notClock

\* Time passes while the span is open.
CTick ==
    /\ cPc = "running"
    /\ cWork < MaxWork
    /\ cNow' = cNow + 1
    /\ cWork' = cWork + 1
    /\ UNCHANGED <<cPc, cFirst, cAsync, cStart, cEnd, cLatency>>
    /\ UNCHANGED notClock

\* Span.end(): the OpenTelemetry span ends at the current time.
CEnd ==
    /\ cPc = "running"
    /\ cEnd' = cNow
    /\ cPc' = "ended"
    /\ UNCHANGED <<cNow, cFirst, cAsync, cStart, cLatency, cWork>>
    /\ UNCHANGED notClock

NextClock ==
    \/ \E first \in BOOLEAN, async \in BOOLEAN, start_time_ns \in {0, 1} :
           CStartSpan(first, async, start_time_ns)
    \/ CTickIdle
    \/ COnStart
    \/ \E latency \in 0..MaxLatency : CStartTrace(latency)
    \/ CStamp
    \/ CTick
    \/ CEnd

-----------------------------------------------------------------------------
(***************************************************************************)
(* Part VII: the status of a span (Span.set_status, Span.end, end_span)    *)
(***************************************************************************)
\* The events of a span at most.
MaxEvents == 3

StatusCodes == {"UNSET", "OK", "ERROR"}
EventKinds == {"exception", "chunk"}

\* The OpenTelemetry span's set_status, which Span.set_status calls: a
\* status of OK is final and UNSET is ignored.
OtelSetStatus(current, status) ==
    IF current = "OK" \/ status = "UNSET" THEN current ELSE status

\* Span.end(): the status becomes OK unless it is ERROR.
SpanEndStatus(current) ==
    IF current # "ERROR" THEN OtelSetStatus(current, "OK") ELSE current

\* An exception event is among the events of the span.
ExceptionRecorded(events) == \E i \in 1..Len(events) : events[i] = "exception"

InitStatus ==
    /\ stStatus = "UNSET"
    /\ stEvents = <<>>
    /\ stEnded = FALSE
    /\ stSetStatusCalled = FALSE
    /\ stStatusAtEnd = "UNSET"

\* span.set_status(status)
StSetStatus(status) ==
    /\ ~stEnded
    /\ stStatus' = OtelSetStatus(stStatus, status)
    /\ stSetStatusCalled' = TRUE
    /\ UNCHANGED <<stEvents, stEnded, stStatusAtEnd>>
    /\ UNCHANGED notStatus

\* span.add_event(event), with SpanEvent.from_exception(e) or another event
StAddEvent(kind) ==
    /\ ~stEnded
    /\ Len(stEvents) < MaxEvents
    /\ stEvents' = Append(stEvents, kind)
    /\ UNCHANGED <<stStatus, stEnded, stSetStatusCalled, stStatusAtEnd>>
    /\ UNCHANGED notStatus

\* The body of "with start_span(...)" returns: mlflow_span.end().
StWithExit ==
    /\ ~stEnded
    /\ stStatusAtEnd' = stStatus
    /\ stStatus' = SpanEndStatus(stStatus)
    /\ stEnded' = TRUE
    /\ UNCHANGED <<stEvents, stSetStatusCalled>>
    /\ UNCHANGED notStatus

\* The body of "with start_span(...)" raises: use_span records the
\* exception and sets the status ERROR, then mlflow_span.end().
StWithExitRaise ==
    /\ ~stEnded
    /\ Len(stEvents) < MaxEvents
    /\ stEvents' = Append(stEvents, "exception")
    /\ stStatusAtEnd' = OtelSetStatus(stStatus, "ERROR")
    /\ stStatus' = SpanEndStatus(OtelSetStatus(stStatus, "ERROR"))
    /\ stEnded' = TRUE
    /\ UNCHANGED stSetStatusCalled
    /\ UNCHANGED notStatus

\* end_span(span, status=...), "default" for a call without a status:
\* span.set_status(status) with the default "OK", then span.end().
StEndSpan(status) ==
    /\ ~stEnded
    /\ stStatusAtEnd' = stStatus
    /\ stStatus' = SpanEndStatus(OtelSetStatus(stStatus,
                       IF status = "default" THEN "OK" ELSE status))
    /\ stSetStatusCalled' = (stSetStatusCalled \/ status # "default")
    /\ stEnded' = TRUE
    /\ UNCHANGED stEvents
    /\ UNCHANGED notStatus

\* _end_stream_span(span, error=e): the exception event is added and the
\* span is ended with the status ERROR.
StEndStreamError ==
    /\ ~stEnded
    /\ Len(stEvents) < MaxEvents
    /\ stEvents' = Append(stEvents, "exception")
    /\ stStatusAtEnd' = stStatus
    /\ stStatus' = SpanEndStatus(OtelSetStatus(stStatus, "ERROR"))
    /\ stEnded' = TRUE
    /\ UNCHANGED stSetStatusCalled
    /\ UNCHANGED notStatus

NextStatus ==
    \/ \E status \in {"OK", "ERROR"} : StSetStatus(status)
    \/ \E kind \in EventKinds : StAddEvent(kind)
    \/ StWithExit
    \/ StWithExitRaise
    \/ \E status \in {"default", "OK", "ERROR"} : StEndSpan(status)
    \/ StEndStreamError

-----------------------------------------------------------------------------
(***************************************************************************)
(* Part VIII: decorated calls and start_span blocks of one thread          *)
(***************************************************************************)
\* The spans of a run and the depth of the call stack at most.
MaxCallSpans == 3
MaxDepth == 2

\* None as an argument or return value.
NoValue == 0 - 1

\* The decorated functions, the names given to the decorator ("": none),
\* the instances a method is called on (0 is an instance whose truth value
\* is false, such as an empty container), the values of the argument x,
\* the values returned and the exceptions raised.
FnNames == {"f", "g"}
GivenNames == {"", "h"}
SelfValues == {0, 7}
ArgValues == {5}
ReturnValues == {64}
Exceptions == {1}

\* The calls of the decorated function "def f(x)", with and without a name
\* given to the decorator, and of the decorated method "def g(self, x)".
DecoratedCalls ==
    {c \in [fn : FnNames, name : GivenNames, method : BOOLEAN, self : SelfValues,
            x : ArgValues] :
        /\ c.fn = "f" => ~c.method /\ c.self = 0
        /\ c.fn = "g" => c.method /\ c.name = ""}

\* The names of the with-blocks.
WithNames == {"w"}

NoDecoratedCall == [fn |-> "", name |-> "", method |-> FALSE, self |-> 0, x |-> 0]

\* func_signature.bind(*args, **kwargs).arguments
BoundArguments(dcall) ==
    IF dcall.method THEN [k \in {"self", "x"} |-> IF k = "self" THEN dcall.self ELSE dcall.x]
    ELSE [k \in {"x"} |-> dcall.x]

\* The truth value of a Python object.
Truthy(v) == v # 0 /\ v # NoValue

\* A mapping without one of its keys.
WithoutKey(d, key) == [k \in DOMAIN d \ {key} |-> d[k]]

\* capture_function_input_args: bound_arguments.arguments.get("self") is
\* tested for its truth value before "self" is deleted.
CaptureFunctionInputArgs(dcall) ==
    IF "self" \in DOMAIN BoundArguments(dcall) /\ Truthy(BoundArguments(dcall)["self"])
    THEN WithoutKey(BoundArguments(dcall), "self")
    ELSE BoundArguments(dcall)

\* span_name = name or fn.__name__; a span name is a pair of the name and
\* the suffix number deduplication gave it (0: none).
SpanName(dcall) == <<IF dcall.name # "" THEN dcall.name ELSE dcall.fn, 0>>

\* The number of names[j], j <= i, equal to names[i].
RECURSIVE CountUpTo(_, _, _)
CountUpTo(names, i, name) ==
    IF i = 0 THEN 0
    ELSE CountUpTo(names, i - 1, name) + (IF names[i] = name THEN 1 ELSE 0)

\* deduplicate_span_names_in_place: a name that several spans of the trace
\* have gets the suffixes _1, _2, ... in the order of the spans.
DeduplicateSpanNames(names) ==
    [i \in DOMAIN names |->
        IF CountUpTo(names, Len(names), names[i]) > 1
        THEN <<names[i][1], CountUpTo(names, i, names[i])>>
        ELSE names[i]]

\* trace_api.use_span(span, end_on_exit=False) when the body raises: the
\* exception is recorded as an event and the status is set to ERROR.
UseSpanKeepStatusOnException(span, exc) ==
    [span EXCEPT !.events = Append(@, <<"exception", exc>>)]
UseSpanOnException(span, exc) ==
    [span EXCEPT !.events = Append(@, <<"exception", exc>>),
                 !.status = OtelSetStatus(@, "ERROR")]

\* use_span on leaving the block: the span is detached from the context.
UseSpanExitKeepAttached(ctx) == ctx
UseSpanExit(ctx) == SubSeq(ctx, 1, Len(ctx) - 1)

\* get_current_active_span() of this thread
KActiveSpan ==
    IF CurrentOtelSpan(kCtx) # NoneId /\ kSpans[CurrentOtelSpan(kCtx)].trace_id \in kReg
    THEN CurrentOtelSpan(kCtx) ELSE NoneId

\* The span ids of a trace, in the order of registration.
SpansOfTrace(spans, tid) ==
    SelectSeq([i \in DOMAIN spans |-> i], LAMBDA i : spans[i].trace_id = tid)

InitCalls ==
    /\ kSpans = <<>>
    /\ kStack = <<>>
    /\ kCtx = <<>>
    /\ kReg = {}
    /\ kExported = <<>>
    /\ kNextTrace = 0
    /\ kPending = 0

\* start_span: the span is started under the current span of the context
\* (on_start registers a trace for a new trace id), registered and attached.
KEnter(kind, dcall, name, inputs) ==
    LET parent == CurrentOtelSpan(kCtx)
        tid == IF parent = NoneId THEN kNextTrace + 1 ELSE kSpans[parent].trace_id
        sid == Len(kSpans) + 1
    IN /\ kPending = 0
       /\ Len(kSpans) < MaxCallSpans
       /\ Len(kStack) < MaxDepth
       /\ kSpans' = Append(kSpans,
              [name |-> name, function_name |-> dcall.fn, parent_id |-> parent,
               trace_id |-> tid, inputs |-> inputs, outputs |-> NoValue,
               status |-> "UNSET", events |-> <<>>, ends |-> 0,
               kind |-> kind, call |-> dcall, active_at_enter |-> KActiveSpan,
               result |-> <<"running", 0>>, active_after_exit |-> NoneId])
       /\ kNextTrace' = IF parent = NoneId THEN kNextTrace + 1 ELSE kNextTrace
       /\ kReg' = kReg \cup {tid}
       /\ kCtx' = Append(kCtx, sid)
       /\ kStack' = Append(kStack, sid)
       /\ UNCHANGED <<kExported, kPending>>

\* A call of a decorated function up to the call of the function itself:
\* _WrappingContext.__enter__ runs the coroutine to its first yield.
KCall(dcall) ==
    /\ KEnter("fn", dcall, SpanName(dcall), CaptureFunctionInputArgs(dcall))
    /\ UNCHANGED notCalls

\* "with mlflow.start_span(name)" is entered.
KWithEnter(name) ==
    /\ KEnter("with", NoDecoratedCall, <<name, 0>>, <<>>)
    /\ UNCHANGED notCalls

\* The span on top of the stack, changed to `span`, is detached and ended:
\* Span.end sets OK unless the status is ERROR; for a root span on_end
\* handles the EndTraceTask, which updates the trace info from the root
\* span, deduplicates the span names and has the exporter pop the trace.
KExit(span, result) ==
    LET sid == kStack[Len(kStack)]
        ctx == UseSpanExit(kCtx)
        root == span.parent_id = NoneId /\ span.trace_id \in kReg
        reg == IF root THEN kReg \ {span.trace_id} ELSE kReg
        ended == [span EXCEPT !.status = SpanEndStatus(@), !.ends = @ + 1,
                              !.result = result,
                              !.active_after_exit =
                                  IF CurrentOtelSpan(ctx) # NoneId
                                     /\ kSpans[CurrentOtelSpan(ctx)].trace_id \in reg
                                  THEN CurrentOtelSpan(ctx) ELSE NoneId]
        spans == [kSpans EXCEPT ![sid] = ended]
        ids == SpansOfTrace(spans, span.trace_id)
        names == DeduplicateSpanNames([i \in DOMAIN ids |-> spans[ids[i]].name])
    IN /\ kCtx' = ctx
       /\ kStack' = SubSeq(kStack, 1, Len(kStack) - 1)
       /\ kSpans' = IF root
                    THEN [s \in DOMAIN spans |->
                            IF spans[s].trace_id = span.trace_id
                            THEN [spans[s] EXCEPT !.name =
                                     names[CHOOSE i \in DOMAIN ids : ids[i] = s]]
                            ELSE spans[s]]
                    ELSE spans
       /\ kExported' = IF root
                       THEN Append(kExported, [trace_id |-> span.trace_id,
                                               root |-> sid,
                                               status |-> ended.status,
                                               spans |-> ids])
                       ELSE kExported
       /\ kReg' = reg
       /\ UNCHANGED kNextTrace

\* The decorated function returns v: the coroutine sets the outputs, the
\* with-block of start_span is left and the wrapper returns v.
KReturn(v) ==
    /\ kStack # <<>>
    /\ kPending = 0
    /\ kSpans[kStack[Len(kStack)]].kind = "fn"
    /\ KExit([kSpans[kStack[Len(kStack)]] EXCEPT !.outputs = v], <<"return", v>>)
    /\ UNCHANGED kPending
    /\ UNCHANGED notCalls

\* The body of "with mlflow.start_span(...)" ends without an exception.
KWithExit ==
    /\ kStack # <<>>
    /\ kPending = 0
    /\ kSpans[kStack[Len(kStack)]].kind = "with"
    /\ KExit(kSpans[kStack[Len(kStack)]], <<"return", NoValue>>)
    /\ UNCHANGED kPending
    /\ UNCHANGED notCalls

\* The decorated function or the body of the with-block raises exc, or lets
\* the propagating exception pass: the exception is thrown into the
\* coroutine, use_span records it, the span is ended and the exception
\* goes on to the caller.
KRaise(exc) ==
    /\ kStack # <<>>
    /\ kPending \in {0, exc}
    /\ KExit(UseSpanOnException(kSpans[kStack[Len(kStack)]], exc), <<"raise", exc>>)
    /\ kPending' = exc
    /\ UNCHANGED notCalls

\* The propagating exception is caught, by the body of the frame on top or
\* by the code that made the top-level call.
KCatch ==
    /\ kPending # 0
    /\ kPending' = 0
    /\ UNCHANGED <<kSpans, kStack, kCtx, kReg, kExported, kNextTrace>>
    /\ UNCHANGED notCalls

\* Any call of a decorated function.
KCallDecorated ==
    /\ kPending = 0
    /\ Len(kSpans) < MaxCallSpans
    /\ \E dcall \in DecoratedCalls : KCall(dcall)

NextCalls ==
    \/ KCallDecorated
    \/ \E name \in WithNames : KWithEnter(name)
    \/ \E v \in ReturnValues : KReturn(v)
    \/ KWithExit
    \/ \E exc \in Exceptions : KRaise(exc)
    \/ KCatch

-----------------------------------------------------------------------------
(***************************************************************************)
(* Part IX: the wrapper of a decorated generator (_wrap_generator)         *)
(***************************************************************************)
\* The chunks of a generator at most.
MaxGenChunks == 2

ChunkValues == {1, 2}

\* The sequences of chunks a generator yields.
ChunkSeqs == UNION {[1..n -> ChunkValues] : n \in 0..MaxGenChunks}

\* The output_reducer arguments: none, sum, and a reducer that raises.
Reducers == {"none", "sum", "raising"}

NoGenFn == [chunks |-> <<>>, raises |-> FALSE, reducer |-> "none"]

NoStreamSpan == [events |-> <<>>, status |-> "UNSET", outputs |-> [kind |-> "unset", list |-> <<>>, value |-> 0], ends |-> 0]

\* The outputs attribute of a span: a list or a single value.
ListOutputs(list) == [kind |-> "list", list |-> list, value |-> 0]
ValueOutputs(value) == [kind |-> "value", list |-> <<>>, value |-> value]

RECURSIVE SumSeq(_)
SumSeq(seq) == IF seq = <<>> THEN 0 ELSE seq[1] + SumSeq(Tail(seq))

\* _record_chunk_event: the name of the event of chunk number chunk_index.
ChunkEventOneBased(chunk_index) == <<"mlflow.chunk.item", chunk_index + 1>>
ChunkEvent(chunk_index) == <<"mlflow.chunk.item", chunk_index>>

\* _end_stream_span without error: outputs = output_reducer(outputs) inside
\* try/except, so a reducer that raises leaves the list.
EndStreamOutputs(outputs, reducer) ==
    IF reducer = "sum" THEN ValueOutputs(SumSeq(outputs)) ELSE ListOutputs(outputs)

\* end_client_span_or_trace(client, span, outputs=outputs): the outputs are
\* set and the span is ended with the default status OK.
EndStreamSpan(span, outputs, reducer) ==
    [span EXCEPT !.outputs = EndStreamOutputs(outputs, reducer),
                 !.status = SpanEndStatus(OtelSetStatus(@, "OK")),
                 !.ends = @ + 1]

\* _end_stream_span(span, error=e): the exception event is added and the
\* span is ended with the status ERROR.
EndStreamSpanErrorNoEvent(span) ==
    [span EXCEPT !.status = SpanEndStatus(OtelSetStatus(@, "ERROR")),
                 !.ends = @ + 1]
EndStreamSpanError(span) ==
    [span EXCEPT !.events = Append(@, <<"exception", 0>>),
                 !.status = SpanEndStatus(OtelSetStatus(@, "ERROR")),
                 !.ends = @ + 1]

\* The value of i when next(generator) is called: the first step starts the
\* wrapper's body (i = 0), a later one resumes it after "yield value" with
\* i += 1.
StepIndex == IF gPc = "created" THEN 0 ELSE gI + 1

InitStream ==
    /\ gFn = NoGenFn
    /\ gPc = "idle"
    /\ gI = 0
    /\ gOutputs = <<>>
    /\ gSpan = NoStreamSpan
    /\ gReceived = <<>>
    /\ gCaller = "none"

\* The decorated generator function is called: the wrapper's generator is
\* created; its body, and with it _start_stream_span, runs at the first
\* next().
GsCall(chunks, raises, reducer) ==
    /\ gFn' = [chunks |-> chunks, raises |-> raises, reducer |-> reducer]
    /\ gPc' = "created"
    /\ UNCHANGED <<gI, gOutputs, gSpan, gReceived, gCaller>>
    /\ UNCHANGED notStream

\* Any call of the decorated generator function.
GsCallGenerator ==
    /\ gPc = "idle"
    /\ \E chunks \in ChunkSeqs, raises \in BOOLEAN, reducer \in Reducers :
          GsCall(chunks, raises, reducer)

\* next() on the wrapper, and the generator yields a chunk: the chunk is
\* appended to outputs, its event is recorded and the wrapper yields it.
GsNextChunk ==
    /\ gPc \in {"created", "suspended"}
    /\ StepIndex < Len(gFn.chunks)
    /\ gI' = StepIndex
    /\ gOutputs' = Append(gOutputs, gFn.chunks[StepIndex + 1])
    /\ gSpan' = [gSpan EXCEPT !.events = Append(@, ChunkEvent(StepIndex))]
    /\ gReceived' = Append(gReceived, gFn.chunks[StepIndex + 1])
    /\ gCaller' = "chunk"
    /\ gPc' = "suspended"
    /\ UNCHANGED gFn
    /\ UNCHANGED notStream

\* next() on the wrapper, and the generator is exhausted: StopIteration
\* breaks the loop, _end_stream_span ends the span with the outputs, and
\* the wrapper's generator ends.
GsNextStop ==
    /\ gPc \in {"created", "suspended"}
    /\ StepIndex = Len(gFn.chunks)
    /\ ~gFn.raises
    /\ gI' = StepIndex
    /\ gSpan' = EndStreamSpan(gSpan, gOutputs, gFn.reducer)
    /\ gCaller' = "stop"
    /\ gPc' = "done"
    /\ UNCHANGED <<gFn, gOutputs, gReceived>>
    /\ UNCHANGED notStream

\* next() on the wrapper, and the generator's body raises:
\* _end_stream_span(span, error=e), then "raise e".
GsNextRaise ==
    /\ gPc \in {"created", "suspended"}
    /\ StepIndex = Len(gFn.chunks)
    /\ gFn.raises
    /\ gI' = StepIndex
    /\ gSpan' = EndStreamSpanError(gSpan)
    /\ gCaller' = "raise"
    /\ gPc' = "done"
    /\ UNCHANGED <<gFn, gOutputs, gReceived>>
    /\ UNCHANGED notStream

\* next() on the wrapper after its end: StopIteration, nothing else.
GsNextAfterEnd ==
    /\ gPc = "done"
    /\ gCaller # "stop"
    /\ gCaller' = "stop"
    /\ UNCHANGED <<gFn, gPc, gI, gOutputs, gSpan, gReceived>>
    /\ UNCHANGED notStream

\* The consumer stops before exhaustion: it calls close() on the wrapper's
\* generator, or drops it and the interpreter closes it. A generator whose
\* body has not started just ends; one suspended at "yield value" gets
\* GeneratorExit there, which no clause of the loop handles, so the
\* wrapper's generator ends without reaching _end_stream_span.
GsClose ==
    /\ gPc \in {"created", "suspended"}
    /\ gPc' = "closed"
    /\ gCaller' = "closed"
    /\ UNCHANGED <<gFn, gI, gOutputs, gSpan, gReceived>>
    /\ UNCHANGED notStream

NextStream ==
    \/ GsCallGenerator
    \/ GsNextChunk
    \/ GsNextStop
    \/ GsNextRaise
    \/ GsNextAfterEnd
    \/ GsClose

-----------------------------------------------------------------------------
(***************************************************************************)
(* Part X: trace tags (update_current_trace, set_trace_tag) and the        *)
(* StartTraceTask                                                          *)
(***************************************************************************)
TagKeys == {"fruit", "animal"}
TagValues == {1, 2}

\* The tag the backend adds to a trace it starts.
BackendTagKey == "mlflow.artifactLocation"

NoTags == [k \in {} |-> 0]

\* The arguments of update_current_trace(tags=...).
TagUpdates == UNION {[keys -> TagValues] : keys \in (SUBSET TagKeys) \ {{}}}

\* dict.update: the keys of `update` are set, the others are kept.
UpdateTags(tags, update) ==
    [k \in DOMAIN tags \cup DOMAIN update |-> IF k \in DOMAIN update THEN update[k] ELSE tags[k]]

\* The tags of the TraceInfo the backend returns for a start-trace call.
BackendTags(sent) == UpdateTags(sent, [k \in {BackendTagKey} |-> 0])

InitTags ==
    /\ tgAsync = FALSE
    /\ tgPc = "idle"
    /\ tgTags = NoTags
    /\ tgTask = "none"
    /\ tgSent = NoTags
    /\ tgExportedTags = NoTags
    /\ tgExpected = NoTags

\* on_start for the first span of a trace: _start_trace makes the
\* StartTraceTask and handles it at once or puts it on the queue; the
\* task's trace_info is registered in the trace manager.
TgStart(async) ==
    /\ tgPc = "idle"
    /\ tgAsync' = async
    /\ tgPc' = "in_progress"
    /\ tgTask' = IF async THEN "queued" ELSE "done"
    /\ tgSent' = IF async THEN tgSent ELSE NoTags
    /\ tgTags' = IF async THEN NoTags ELSE BackendTags(NoTags)
    /\ UNCHANGED <<tgExportedTags, tgExpected>>
    /\ UNCHANGED notTags

\* update_current_trace(tags): trace.info.tags.update(tags) under the lock
\* of the trace.
TgUpdate(update) ==
    /\ tgPc = "in_progress"
    /\ tgTags' = UpdateTags(tgTags, update)
    /\ tgExpected' = UpdateTags(tgExpected, update)
    /\ UNCHANGED <<tgAsync, tgPc, tgTask, tgSent, tgExportedTags>>
    /\ UNCHANGED notTags

\* set_trace_tag(request_id, key, value): trace.info.tags[key] = value under
\* the lock of the trace.
TgSetTag(key, value) ==
    /\ tgPc = "in_progress"
    /\ tgTags' = UpdateTags(tgTags, [k \in {key} |-> value])
    /\ tgExpected' = UpdateTags(tgExpected, [k \in {key} |-> value])
    /\ UNCHANGED <<tgAsync, tgPc, tgTask, tgSent, tgExportedTags>>
    /\ UNCHANGED notTags

\* A worker begins StartTraceTask.handle: _start_tracked_trace is called
\* with the tags the trace info has now.
TgWorkerBegin ==
    /\ tgTask = "queued"
    /\ tgTask' = "in_backend"
    /\ tgSent' = tgTags
    /\ UNCHANGED <<tgAsync, tgPc, tgTags, tgExportedTags, tgExpected>>
    /\ UNCHANGED notTags

\* The backend call returns: the request id is completed and
\* self.trace_info.tags = ti.tags, without the lock of the trace.
TgWorkerFinish ==
    /\ tgTask = "in_backend"
    /\ tgTask' = "done"
    /\ tgTags' = BackendTags(tgSent)
    /\ UNCHANGED <<tgAsync, tgPc, tgSent, tgExportedTags, tgExpected>>
    /\ UNCHANGED notTags

\* The root span ends: on_end handles the EndTraceTask at once, which
\* exports the trace, or puts it on the queue.
TgRootEnd ==
    /\ tgPc = "in_progress"
    /\ tgPc' = IF tgAsync THEN "ended" ELSE "exported"
    /\ tgExportedTags' = IF tgAsync THEN tgExportedTags ELSE tgTags
    /\ UNCHANGED <<tgAsync, tgTags, tgTask, tgSent, tgExpected>>
    /\ UNCHANGED notTags

\* A worker handles the EndTraceTask, which waits for the request id of the
\* StartTraceTask: the exporter pops the trace and logs it.
TgWorkerExport ==
    /\ tgPc = "ended"
    /\ tgTask = "done"
    /\ tgPc' = "exported"
    /\ tgExportedTags' = tgTags
    /\ UNCHANGED <<tgAsync, tgTags, tgTask, tgSent, tgExpected>>
    /\ UNCHANGED notTags

NextTags ==
    \/ \E async \in BOOLEAN : TgStart(async)
    \/ \E update \in TagUpdates : TgUpdate(update)
    \/ \E key \in TagKeys, value \in TagValues : TgSetTag(key, value)
    \/ TgWorkerBegin
    \/ TgWorkerFinish
    \/ TgRootEnd
    \/ TgWorkerExport

-----------------------------------------------------------------------------
(***************************************************************************)
(* Part XI: from the root span's start to the export of the trace, with    *)
(* synchronous and asynchronous logging and a backend that may fail        *)
(***************************************************************************)
\* The export calls for the root span of one trace.
MaxExports == 2

XStartTask(t) == [kind |-> "start", trace |-> t]
XEndTask(t) == [kind |-> "end", trace |-> t]

\* The thread runs no traced call.
XThreadFree(th) == \A t \in TraceIds : xOwner[t] = th => xPc[t] = "returned"

\* get_last_active_trace: the request id it looks up, None when the pointer
\* was never set.
LastActiveTraceId(th, thread_local) ==
    IF thread_local THEN xLastLocal[th] ELSE xLastGlobal

InitExport ==
    /\ xMode = "unset"
    /\ xPc = [t \in TraceIds |-> "new"]
    /\ xOwner = [t \in TraceIds |-> NoneId]
    /\ xManager = [t \in TraceIds |-> "none"]
    /\ xStatus = [t \in TraceIds |-> "IN_PROGRESS"]
    /\ xTasks = {}
    /\ xRetry = [t \in TraceIds |-> 0]
    /\ xBuffer = {}
    /\ xBackend = [t \in TraceIds |-> "none"]
    /\ xCallerIO = {}
    /\ xStartFailed = {}
    /\ xLogFailed = {}
    /\ xLogCalls = [t \in TraceIds |-> 0]
    /\ xWarned = {}
    /\ xLogQueueActive = FALSE
    /\ xFlushed = {}
    /\ xLastGlobal = NoneId
    /\ xLastLocal = [th \in Threads |-> NoneId]
    /\ xLastCompleted = [th \in Threads |-> NoneId]
    /\ xExports = [t \in TraceIds |-> 0]

\* The environment variable is set before the first traced call.
XSetMode(mode) ==
    /\ xMode = "unset"
    /\ xMode' = mode
    /\ UNCHANGED <<xPc, xOwner, xManager, xStatus, xTasks, xRetry, xBuffer,
                   xBackend, xCallerIO, xStartFailed, xLogFailed, xLogCalls,
                   xWarned, xLogQueueActive, xFlushed, xLastGlobal, xLastLocal,
                   xLastCompleted, xExports>>
    /\ UNCHANGED notExport

\* MlflowSpanExporter.export for the root span of trace t, called by
\* EndTraceTask.handle on the thread that handles the task: the trace is
\* popped and put into TRACE_BUFFER, then _log_trace runs inside try/except.
\* Synchronous: self._client._log_trace(trace), which returns (ok) or raises.
\* Asynchronous: the logging queue is activated and log_trace_async builds
\* EndTraceTask(trace=trace, ...); the dataclass has no field `trace`, so
\* the call raises TypeError before anything is put on the queue. Either
\* exception is caught and logged as a warning. Nothing here sets the
\* last-active-trace pointers.
Export(t, ok) ==
    /\ xExports' = [xExports EXCEPT ![t] = @ + 1]
    /\ xManager' = [xManager EXCEPT ![t] = "popped"]
    /\ xBuffer' = xBuffer \cup {t}
    /\ IF xMode = "async"
       THEN /\ xLogQueueActive' = TRUE
            /\ xWarned' = xWarned \cup {t}
            /\ UNCHANGED <<xBackend, xLogFailed, xLogCalls>>
       ELSE /\ xLogCalls' = [xLogCalls EXCEPT ![t] = @ + 1]
            /\ xBackend' = IF ok THEN [xBackend EXCEPT ![t] = "logged"] ELSE xBackend
            /\ xLogFailed' = IF ok THEN xLogFailed ELSE xLogFailed \cup {t}
            /\ xWarned' = IF ok THEN xWarned ELSE xWarned \cup {t}
            /\ UNCHANGED xLogQueueActive
    /\ UNCHANGED <<xLastGlobal, xLastLocal>>

\* MlflowSpanProcessor.on_start for the root span of trace t on thread th.
\* Synchronous: _start_trace runs StartTraceTask.handle on the caller's
\* thread; when the backend call raises, the exception leaves on_start and
\* start_span's "except Exception" gives the call a NoOpSpan, the trace is
\* not registered. Asynchronous: the StartTraceTask is put on the queue and
\* the trace is registered with a RequestIdFuture.
XOnStart(th, t) ==
    /\ xMode \in {"sync", "async"}
    /\ xPc[t] = "new"
    /\ XThreadFree(th)
    /\ xOwner' = [xOwner EXCEPT ![t] = th]
    /\ IF xMode = "async"
       THEN /\ xTasks' = xTasks \cup {XStartTask(t)}
            /\ xManager' = [xManager EXCEPT ![t] = "future"]
            /\ xPc' = [xPc EXCEPT ![t] = "in_call"]
            /\ UNCHANGED <<xBackend, xCallerIO, xStartFailed>>
       ELSE /\ xCallerIO' = xCallerIO \cup {t}
            /\ \E ok \in BOOLEAN :
                 IF ok
                 THEN /\ xBackend' = [xBackend EXCEPT ![t] = "started"]
                      /\ xManager' = [xManager EXCEPT ![t] = "ready"]
                      /\ xPc' = [xPc EXCEPT ![t] = "in_call"]
                      /\ UNCHANGED xStartFailed
                 ELSE /\ xStartFailed' = xStartFailed \cup {t}
                      /\ xPc' = [xPc EXCEPT ![t] = "noop"]
                      /\ UNCHANGED <<xBackend, xManager>>
            /\ UNCHANGED xTasks
    /\ UNCHANGED <<xMode, xStatus, xRetry, xBuffer, xLogFailed, xLogCalls,
                   xWarned, xLogQueueActive, xFlushed, xLastGlobal, xLastLocal,
                   xLastCompleted, xExports>>
    /\ UNCHANGED notExport

\* The call that got a NoOpSpan returns: no span, no trace.
XNoOpReturn(t) ==
    /\ xPc[t] = "noop"
    /\ xPc' = [xPc EXCEPT ![t] = "returned"]
    /\ UNCHANGED <<xMode, xOwner, xManager, xStatus, xTasks, xRetry, xBuffer,
                   xBackend, xCallerIO, xStartFailed, xLogFailed, xLogCalls,
                   xWarned, xLogQueueActive, xFlushed, xLastGlobal, xLastLocal,
                   xLastCompleted, xExports>>
    /\ UNCHANGED notExport

\* MlflowSpanProcessor.on_end for the root span of trace t; the call then
\* returns. Synchronous: EndTraceTask.handle runs on the caller's thread
\* (the trace info is finalized, the trace exported). Asynchronous: the
\* EndTraceTask is put on the queue.
XOnEnd(t) ==
    /\ xPc[t] = "in_call"
    /\ xPc' = [xPc EXCEPT ![t] = "returned"]
    /\ xLastCompleted' = [xLastCompleted EXCEPT ![xOwner[t]] = t]
    /\ IF xMode = "async"
       THEN /\ xTasks' = xTasks \cup {XEndTask(t)}
            /\ UNCHANGED <<xManager, xStatus, xBuffer, xBackend, xCallerIO,
                           xLogFailed, xLogCalls, xWarned, xLogQueueActive,
                           xLastGlobal, xLastLocal, xExports>>
       ELSE /\ xStatus' = [xStatus EXCEPT ![t] = "OK"]
            /\ xCallerIO' = xCallerIO \cup {t}
            /\ \E ok \in BOOLEAN : Export(t, ok)
            /\ UNCHANGED xTasks
    /\ UNCHANGED <<xMode, xOwner, xRetry, xStartFailed, xFlushed>>
    /\ UNCHANGED notExport

\* A worker handles the StartTraceTask of trace t: the backend call returns
\* and the request id future is completed, or it raises and _handle's
\* "except Exception" branch fails on task.trace (no task has the
\* attribute), so the future is never completed.
XWorkerStart(t) ==
    /\ XStartTask(t) \in xTasks
    /\ xTasks' = xTasks \ {XStartTask(t)}
    /\ \E ok \in BOOLEAN :
         IF ok
         THEN /\ xBackend' = [xBackend EXCEPT ![t] = "started"]
              /\ xManager' = [xManager EXCEPT ![t] = "ready"]
              /\ UNCHANGED xStartFailed
         ELSE /\ xStartFailed' = xStartFailed \cup {t}
              /\ UNCHANGED <<xBackend, xManager>>
    /\ UNCHANGED <<xMode, xPc, xOwner, xStatus, xRetry, xBuffer, xCallerIO,
                   xLogFailed, xLogCalls, xWarned, xLogQueueActive, xFlushed,
                   xLastGlobal, xLastLocal, xLastCompleted, xExports>>
    /\ UNCHANGED notExport

\* A worker handles the EndTraceTask of trace t while the request id is not
\* resolved: RetryableTraceException; the task is put back until
\* _MAX_RETRY, then given up.
XWorkerEndRetry(t) ==
    /\ XEndTask(t) \in xTasks
    /\ xManager[t] = "future"
    /\ IF xRetry[t] < MAX_RETRY
       THEN /\ xRetry' = [xRetry EXCEPT ![t] = @ + 1]
            /\ UNCHANGED xTasks
       ELSE /\ xTasks' = xTasks \ {XEndTask(t)}
            /\ UNCHANGED xRetry
    /\ UNCHANGED <<xMode, xPc, xOwner, xManager, xStatus, xBuffer, xBackend,
                   xCallerIO, xStartFailed, xLogFailed, xLogCalls, xWarned,
                   xLogQueueActive, xFlushed, xLastGlobal, xLastLocal,
                   xLastCompleted, xExports>>
    /\ UNCHANGED notExport

\* A worker handles the EndTraceTask of trace t, the request id resolved:
\* the trace info is finalized and the trace exported, on the worker.
XWorkerEnd(t) ==
    /\ XEndTask(t) \in xTasks
    /\ xManager[t] = "ready"
    /\ xTasks' = xTasks \ {XEndTask(t)}
    /\ xStatus' = [xStatus EXCEPT ![t] = "OK"]
    /\ Export(t, TRUE)
    /\ UNCHANGED <<xMode, xPc, xOwner, xRetry, xCallerIO, xStartFailed,
                   xFlushed, xLastCompleted>>
    /\ UNCHANGED notExport

\* MlflowSpanExporter.export is called again for the root span of a trace
\* it has popped (the replay of test_export): pop_trace returns None and the
\* span is skipped with a debug message.
XExportAgain(t) ==
    /\ xManager[t] = "popped"
    /\ xExports[t] < MaxExports
    /\ xExports' = [xExports EXCEPT ![t] = @ + 1]
    /\ UNCHANGED <<xMode, xPc, xOwner, xManager, xStatus, xTasks, xRetry,
                   xBuffer, xBackend, xCallerIO, xStartFailed, xLogFailed,
                   xLogCalls, xWarned, xLogQueueActive, xFlushed, xLastGlobal,
                   xLastLocal, xLastCompleted>>
    /\ UNCHANGED notExport

\* MlflowSpanExporter.flush with asynchronous logging: it flushes the
\* exporter's AsyncTraceLoggingQueue, which holds no task (log_trace_async
\* raises before it puts one), so it returns without waiting for the
\* processor's tasks. Before the queue is activated it has no thread to join.
XFlush ==
    /\ xMode = "async"
    /\ xLogQueueActive
    /\ xFlushed' = xFlushed \cup {t \in TraceIds : xPc[t] = "returned"}
    /\ UNCHANGED <<xMode, xPc, xOwner, xManager, xStatus, xTasks, xRetry,
                   xBuffer, xBackend, xCallerIO, xStartFailed, xLogFailed,
                   xLogCalls, xWarned, xLogQueueActive, xLastGlobal, xLastLocal,
                   xLastCompleted, xExports>>
    /\ UNCHANGED notExport

NextExport ==
    \/ \E mode \in {"sync", "async"} : XSetMode(mode)
    \/ \E th \in Threads, t \in TraceIds : XOnStart(th, t)
    \/ \E t \in TraceIds : XNoOpReturn(t)
    \/ \E t \in TraceIds : XOnEnd(t)
    \/ \E t \in TraceIds : XWorkerStart(t)
    \/ \E t \in TraceIds : XWorkerEndRetry(t)
    \/ \E t \in TraceIds : XWorkerEnd(t)
    \/ \E t \in TraceIds : XExportAgain(t)
    \/ XFlush
-----------------------------------------------------------------------------
(***************************************************************************)
(* Part XII: the calls on one span object (Span, NoOpSpan) before and      *)
(* after its end                                                           *)
(***************************************************************************)
\* The clock readings of a run.
MaxSpanClock == 3

\* SpanAttributeKey.INPUTS, SpanAttributeKey.OUTPUTS and a user's key.
AttrKeys == {"mlflow.spanInputs", "mlflow.spanOutputs", "k"}
AttrValues == {1, 2}

NoAttrs == [k \in AttrKeys |-> NoValue]

\* The span as the storage gave it back: ended, with inputs.
StoredAttrs == [NoAttrs EXCEPT !["mlflow.spanInputs"] = 1]

\* isinstance(self._otel_span, OTelSpan): the span wraps a span of the
\* tracer, not a ReadableSpan built from stored data.
IsActiveSpan == lsKind = "live"

\* The OpenTelemetry span has ended.
LsEnded == lsEndTime # NoneId

\* The OpenTelemetry span's end(), which Span.end calls: an ended span logs
\* a warning and returns; else _end_time is assigned and the span
\* processor's on_end is called. The mutant assigns and calls again.
OtelEndUnguarded(endTime, onEnd, assigned, now) ==
    [end_time |-> now, on_end |-> onEnd + 1,
     assigned |-> Append(assigned, now), warned |-> FALSE]
OtelEnd(endTime, onEnd, assigned, now) ==
    IF endTime # NoneId
    THEN [end_time |-> endTime, on_end |-> onEnd, assigned |-> assigned,
          warned |-> TRUE]
    ELSE [end_time |-> now, on_end |-> onEnd + 1,
          assigned |-> Append(assigned, now), warned |-> FALSE]

\* The OpenTelemetry span's set_attribute, which SpanAttributesRegistry.set
\* calls: an ended span logs a warning and keeps its attributes.
OtelSetAttribute(attrs, ended, key, value) ==
    IF ended THEN attrs ELSE [attrs EXCEPT ![key] = value]

\* The OpenTelemetry span's set_status on a span that may have ended.
OtelSetStatusOn(current, ended, status) ==
    IF ended THEN current ELSE OtelSetStatus(current, status)

InitLiveSpan ==
    /\ lsKind = "none"
    /\ lsAttrs = NoAttrs
    /\ lsStatus = "UNSET"
    /\ lsEvents = 0
    /\ lsEndTime = NoneId
    /\ lsOnEnd = 0
    /\ lsRaised = "none"
    /\ lsWarned = FALSE
    /\ lsNow = 1
    /\ lsEndAssigned = <<>>
    /\ lsEndedBefore = FALSE

\* The span object comes into being: a live span from start_span, a span
\* loaded from storage (ended at time 1), or the NoOpSpan start_span yields
\* when the span creation failed.
LsCreate(kind) ==
    /\ lsKind = "none"
    /\ lsKind' = kind
    /\ lsAttrs' = IF kind = "immutable" THEN StoredAttrs ELSE NoAttrs
    /\ lsStatus' = IF kind = "immutable" THEN "OK" ELSE "UNSET"
    /\ lsEndTime' = IF kind = "immutable" THEN 1 ELSE NoneId
    /\ UNCHANGED <<lsEvents, lsOnEnd, lsRaised, lsWarned, lsNow, lsEndAssigned,
                   lsEndedBefore>>
    /\ UNCHANGED notLiveSpan

\* Time passes.
LsTick ==
    /\ lsKind # "none"
    /\ lsNow < MaxSpanClock
    /\ lsNow' = lsNow + 1
    /\ UNCHANGED <<lsKind, lsAttrs, lsStatus, lsEvents, lsEndTime, lsOnEnd,
                   lsRaised, lsWarned, lsEndAssigned, lsEndedBefore>>
    /\ UNCHANGED notLiveSpan

\* What every call on the span does first: NoOpSpan's methods pass; the
\* active_span_only wrapper of Span's methods raises MlflowException when
\* the span is not active. TRUE when the method body runs.
LsBodyRuns == IsActiveSpan

\* The part of a call that does not depend on the method.
LsCallFrame ==
    /\ lsKind # "none"
    /\ lsRaised' = IF lsKind = "immutable" THEN "MlflowException" ELSE "none"
    /\ lsEndedBefore' = LsEnded
    /\ UNCHANGED <<lsKind, lsNow>>
    /\ UNCHANGED notLiveSpan

\* span.set_attribute(key, value); set_inputs and set_outputs are
\* set_attribute with the key INPUTS or OUTPUTS.
LsSetAttribute(key, value) ==
    /\ LsCallFrame
    /\ lsAttrs' = IF LsBodyRuns
                  THEN OtelSetAttribute(lsAttrs, LsEnded, key, value)
                  ELSE lsAttrs
    /\ lsWarned' = (LsBodyRuns /\ LsEnded)
    /\ UNCHANGED <<lsStatus, lsEvents, lsEndTime, lsOnEnd, lsEndAssigned>>

\* span.set_inputs(value)
LsSetInputs(value) == LsSetAttribute("mlflow.spanInputs", value)

\* span.set_outputs(value)
LsSetOutputs(value) == LsSetAttribute("mlflow.spanOutputs", value)

\* span.set_attributes({key: value, ...}): set_attribute for every item.
LsSetAttributes(attributes) ==
    /\ LsCallFrame
    /\ lsAttrs' = IF LsBodyRuns /\ ~LsEnded
                  THEN [k \in AttrKeys |-> IF k \in DOMAIN attributes
                                           THEN attributes[k] ELSE lsAttrs[k]]
                  ELSE lsAttrs
    /\ lsWarned' = (LsBodyRuns /\ LsEnded)
    /\ UNCHANGED <<lsStatus, lsEvents, lsEndTime, lsOnEnd, lsEndAssigned>>

\* span.set_status(status)
LsSetStatus(status) ==
    /\ LsCallFrame
    /\ lsStatus' = IF LsBodyRuns
                   THEN OtelSetStatusOn(lsStatus, LsEnded, status)
                   ELSE lsStatus
    /\ lsWarned' = (LsBodyRuns /\ LsEnded)
    /\ UNCHANGED <<lsAttrs, lsEvents, lsEndTime, lsOnEnd, lsEndAssigned>>

\* span.add_event(event)
LsAddEvent ==
    /\ LsCallFrame
    /\ lsEvents < MaxEvents
    /\ lsEvents' = IF LsBodyRuns /\ ~LsEnded THEN lsEvents + 1 ELSE lsEvents
    /\ lsWarned' = (LsBodyRuns /\ LsEnded)
    /\ UNCHANGED <<lsAttrs, lsStatus, lsEndTime, lsOnEnd, lsEndAssigned>>

\* span.end(): the status becomes OK unless it is ERROR, then the
\* OpenTelemetry span is ended.
LsEnd ==
    /\ LsCallFrame
    /\ IF LsBodyRuns
       THEN LET r == OtelEnd(lsEndTime, lsOnEnd, lsEndAssigned, lsNow)
            IN /\ lsStatus' = IF lsStatus # "ERROR"
                              THEN OtelSetStatusOn(lsStatus, LsEnded, "OK")
                              ELSE lsStatus
               /\ lsEndTime' = r.end_time
               /\ lsOnEnd' = r.on_end
               /\ lsEndAssigned' = r.assigned
               /\ lsWarned' = (r.warned \/ (LsEnded /\ lsStatus # "ERROR"))
       ELSE /\ lsWarned' = FALSE
            /\ UNCHANGED <<lsStatus, lsEndTime, lsOnEnd, lsEndAssigned>>
    /\ UNCHANGED <<lsAttrs, lsEvents>>

\* end_span(span, outputs=..., status=...): nothing for a no-op span; else
\* set_attributes({}), set_outputs when outputs are given, set_status, and
\* span.end() inside try/except. The first setter raises on an immutable
\* span, outside the try.
LsEndSpan(outputs, status) ==
    /\ LsCallFrame
    /\ IF LsBodyRuns
       THEN LET st == OtelSetStatusOn(lsStatus, LsEnded, status)
                r == OtelEnd(lsEndTime, lsOnEnd, lsEndAssigned, lsNow)
            IN /\ lsAttrs' = IF outputs # NoValue
                             THEN OtelSetAttribute(lsAttrs, LsEnded,
                                                   "mlflow.spanOutputs", outputs)
                             ELSE lsAttrs
               /\ lsStatus' = IF st # "ERROR"
                              THEN OtelSetStatusOn(st, LsEnded, "OK") ELSE st
               /\ lsEndTime' = r.end_time
               /\ lsOnEnd' = r.on_end
               /\ lsEndAssigned' = r.assigned
               /\ lsWarned' = LsEnded
       ELSE /\ lsWarned' = FALSE
            /\ UNCHANGED <<lsAttrs, lsStatus, lsEndTime, lsOnEnd, lsEndAssigned>>
    /\ UNCHANGED lsEvents

\* The calls on a span, their arguments drawn here.
LsCallSetter ==
    \/ \E key \in AttrKeys, value \in AttrValues : LsSetAttribute(key, value)
    \/ \E value \in AttrValues : LsSetInputs(value)
    \/ \E value \in AttrValues : LsSetOutputs(value)
    \/ \E keys \in (SUBSET AttrKeys) \ {{}} :
          \E attributes \in [keys -> AttrValues] : LsSetAttributes(attributes)
    \/ \E status \in {"OK", "ERROR"} : LsSetStatus(status)
    \/ LsAddEvent

NextLiveSpan ==
    \/ \E kind \in {"live", "immutable", "noop"} : LsCreate(kind)
    \/ LsTick
    \/ LsCallSetter
    \/ LsEnd
    \/ \E outputs \in AttrValues \cup {NoValue}, status \in {"OK", "ERROR"} :
          LsEndSpan(outputs, status)
-----------------------------------------------------------------------------
(***************************************************************************)
(* Part XIII: InMemoryTraceManager.set_trace_tag among add_trace,          *)
(* pop_trace, update_span and the expiry of the TTL cache                  *)
(***************************************************************************)
\* The set_trace_tag calls of a run.
MaxSetTagCalls == 2

NoSetTagCall == [request_id |-> NoneId, key |-> "", value |-> 0, raised |-> "none"]

\* str(value) for the tag values of the model.
PyStr(value) == IF value = 1 THEN "1" ELSE "2"

\* The trace set_trace_tag and pop_trace work on:
\* self._traces.get(self._request_id_to_trace_id.get(request_id)), NoneId
\* when there is none.
RegisteredTraceOf(reg, ids, request_id) ==
    IF ids[request_id] \in DOMAIN reg THEN ids[request_id] ELSE NoneId

\* set_trace_tag(request_id, key, value), under the lock of the trace id:
\* trace.info.tags[key] = str(value) when the trace is found, else
\* MlflowException(RESOURCE_DOES_NOT_EXIST). The mutant returns silently
\* for a trace that is not found.
SetTraceTagSilent(reg, ids, request_id, key, value) ==
    LET t == RegisteredTraceOf(reg, ids, request_id)
    IN IF t # NoneId
       THEN [traces |-> [reg EXCEPT ![t].tags = (key :> PyStr(value)) @@ @],
             raised |-> "none"]
       ELSE [traces |-> reg, raised |-> "none"]
SetTraceTag(reg, ids, request_id, key, value) ==
    LET t == RegisteredTraceOf(reg, ids, request_id)
    IN IF t # NoneId
       THEN [traces |-> [reg EXCEPT ![t].tags = (key :> PyStr(value)) @@ @],
             raised |-> "none"]
       ELSE [traces |-> reg, raised |-> "RESOURCE_DOES_NOT_EXIST"]

InitSetTag ==
    /\ rTraces = <<>>
    /\ rIndex = [r \in RequestIds |-> NoneId]
    /\ rCall = NoSetTagCall
    /\ rCalls = 0

\* add_trace(trace_id, trace_info) for a new trace: the trace and the index
\* entry of its request id are stored.
RAddTrace(t) ==
    /\ \A r \in RequestIds : rIndex[r] # t
    /\ rTraces' = (t :> [request_id |-> RequestIdOf(t), tags |-> NoTags,
                         spans |-> 0]) @@ rTraces
    /\ rIndex' = [rIndex EXCEPT ![RequestIdOf(t)] = t]
    /\ UNCHANGED <<rCall, rCalls>>
    /\ UNCHANGED notSetTag

\* update_span(span): the span is stored in the span_dict of a registered
\* trace.
RUpdateSpan(t) ==
    /\ t \in DOMAIN rTraces
    /\ rTraces[t].spans < NumSpans
    /\ rTraces' = [rTraces EXCEPT ![t].spans = @ + 1]
    /\ UNCHANGED <<rIndex, rCall, rCalls>>
    /\ UNCHANGED notSetTag

\* pop_trace(request_id): the trace is removed from _traces; the index
\* entry stays.
RPopTrace(request_id) ==
    /\ RegisteredTraceOf(rTraces, rIndex, request_id) # NoneId
    /\ rTraces' = RemoveTrace(rTraces, rIndex[request_id])
    /\ UNCHANGED <<rIndex, rCall, rCalls>>
    /\ UNCHANGED notSetTag

\* The TTL cache drops a trace that expired or exceeded the buffer size.
REvict(t) ==
    /\ t \in DOMAIN rTraces
    /\ rTraces' = RemoveTrace(rTraces, t)
    /\ UNCHANGED <<rIndex, rCall, rCalls>>
    /\ UNCHANGED notSetTag

\* A call of set_trace_tag.
RSetTraceTag(request_id, key, value) ==
    /\ rCalls < MaxSetTagCalls
    /\ LET result == SetTraceTag(rTraces, rIndex, request_id, key, value)
       IN /\ rTraces' = result.traces
          /\ rCall' = [request_id |-> request_id, key |-> key, value |-> value,
                       raised |-> result.raised]
    /\ rCalls' = rCalls + 1
    /\ UNCHANGED rIndex
    /\ UNCHANGED notSetTag

NextSetTag ==
    \/ \E t \in TraceIds : RAddTrace(t)
    \/ \E t \in TraceIds : RUpdateSpan(t)
    \/ \E r \in RequestIds : RPopTrace(r)
    \/ \E t \in TraceIds : REvict(t)
    \/ \E r \in RequestIds, key \in TagKeys, value \in TagValues :
          RSetTraceTag(r, key, value)

-----------------------------------------------------------------------------
(***************************************************************************)
(* Part XIV: the tracing configuration (configure, reset_config)           *)
(***************************************************************************)
\* The calls of configure and reset_config and the with-blocks of a run.
MaxConfigOps == 3

\* Python values: the booleans and None.
PyBool == {"True", "False"}
PyOptionalBool == PyBool \cup {"None"}

\* "not x" and "a or b" of Python: a when a is truthy, else b.
PyNot(x) == IF x = "True" THEN "False" ELSE "True"
PyOr(a, b) == IF a = "True" THEN a ELSE b

\* MlflowTracingConfig.__init__(wait_for_logging, display_on_notebook).
MlflowTracingConfig(wait_for_logging, display_on_notebook, env) ==
    [wait_for_logging |-> PyOr(wait_for_logging, PyNot(env)),
     display_on_notebook |-> display_on_notebook]

\* MlflowTracingConfig(_record_current_config=False): the defaults.
DefaultTracingConfig(env) == MlflowTracingConfig("None", "True", env)

\* configure(wait_for_logging, display_on_notebook): the active
\* configuration's to_dict(), updated with the arguments that are not None,
\* is passed to MlflowTracingConfig.
Configure(active, wait_for_logging, display_on_notebook, env) ==
    MlflowTracingConfig(
        IF wait_for_logging # "None" THEN wait_for_logging
        ELSE active.wait_for_logging,
        IF display_on_notebook # "None" THEN display_on_notebook
        ELSE active.display_on_notebook,
        env)

NoConfigCall == [op |-> "none", wait_for_logging |-> "None",
                 display_on_notebook |-> "None"]

\* mlflow.tracing.config is not imported yet.
InitConfig ==
    /\ cfEnv = "unset"
    /\ cfActive = [wait_for_logging |-> "None", display_on_notebook |-> "None"]
    /\ cfBlocks = <<>>
    /\ cfLast = NoConfigCall
    /\ cfBefore = <<>>
    /\ cfOps = 0

\* The module is imported with the environment variable as it is: the
\* active configuration is the default one.
CfImport(env) ==
    /\ cfEnv = "unset"
    /\ cfEnv' = env
    /\ cfActive' = DefaultTracingConfig(env)
    /\ UNCHANGED <<cfBlocks, cfLast, cfBefore, cfOps>>
    /\ UNCHANGED notConfig

\* configure(...) as a plain call: the caller is not __enter__, so the new
\* configuration becomes the active one.
CfConfigure(wait_for_logging, display_on_notebook) ==
    /\ cfEnv # "unset"
    /\ cfOps < MaxConfigOps
    /\ cfActive' = Configure(cfActive, wait_for_logging, display_on_notebook, cfEnv)
    /\ cfLast' = [op |-> "configure", wait_for_logging |-> wait_for_logging,
                  display_on_notebook |-> display_on_notebook]
    /\ cfOps' = cfOps + 1
    /\ UNCHANGED <<cfEnv, cfBlocks, cfBefore>>
    /\ UNCHANGED notConfig

\* "with configure(...):" is entered: __init__ records the active
\* configuration as _old_config, configure makes the new one active and
\* __enter__ does so again.
CfWithEnter(wait_for_logging, display_on_notebook) ==
    /\ cfEnv # "unset"
    /\ cfOps < MaxConfigOps
    /\ LET config == Configure(cfActive, wait_for_logging, display_on_notebook, cfEnv)
       IN /\ cfBlocks' = Append(cfBlocks, [config |-> config, _old_config |-> cfActive])
          /\ cfActive' = config
    /\ cfBefore' = Append(cfBefore, cfActive)
    /\ cfLast' = [op |-> "enter", wait_for_logging |-> wait_for_logging,
                  display_on_notebook |-> display_on_notebook]
    /\ cfOps' = cfOps + 1
    /\ UNCHANGED cfEnv
    /\ UNCHANGED notConfig

\* The innermost with-block is left: __exit__ makes _old_config the active
\* configuration.
CfWithExit ==
    /\ cfBlocks # <<>>
    /\ cfActive' = cfBlocks[Len(cfBlocks)]._old_config
    /\ cfBlocks' = SubSeq(cfBlocks, 1, Len(cfBlocks) - 1)
    /\ cfBefore' = SubSeq(cfBefore, 1, Len(cfBefore) - 1)
    /\ cfLast' = [NoConfigCall EXCEPT !.op = "exit"]
    /\ cfOps' = cfOps + 1
    /\ UNCHANGED cfEnv
    /\ UNCHANGED notConfig

\* reset_config().
CfReset ==
    /\ cfEnv # "unset"
    /\ cfOps < MaxConfigOps
    /\ cfActive' = DefaultTracingConfig(cfEnv)
    /\ cfLast' = [NoConfigCall EXCEPT !.op = "reset"]
    /\ cfOps' = cfOps + 1
    /\ UNCHANGED <<cfEnv, cfBlocks, cfBefore>>
    /\ UNCHANGED notConfig

\* A call of configure with its arguments.
CfCallConfigure ==
    \E w \in PyOptionalBool, d \in PyOptionalBool : CfConfigure(w, d)

\* A with-block of configure with its arguments.
CfCallWithEnter ==
    \E w \in PyOptionalBool, d \in PyOptionalBool : CfWithEnter(w, d)

NextConfig ==
    \/ \E env \in PyBool : CfImport(env)
    \/ CfCallConfigure
    \/ CfCallWithEnter
    \/ CfWithExit
    \/ CfReset

-----------------------------------------------------------------------------
(***************************************************************************)
(* Part XV: the attempts of one EndTraceTask in AsyncTraceTaskQueue, with  *)
(* a clock                                                                 *)
(***************************************************************************)
\* The clock readings of a run.
MaxRetryClock == 2

InitRetry ==
    /\ rtNow = 0
    /\ rtWhere = "none"
    /\ rtRetry = 0
    /\ rtReady = FALSE
    /\ rtAttempts = <<>>
    /\ rtWarned = FALSE
    /\ rtCompletion = FALSE
    /\ rtExports = 0

\* Time passes.
RtTick ==
    /\ rtNow < MaxRetryClock
    /\ rtWhere \in {"queue", "worker"}
    /\ rtNow' = rtNow + 1
    /\ UNCHANGED <<rtWhere, rtRetry, rtReady, rtAttempts, rtWarned,
                   rtCompletion, rtExports>>
    /\ UNCHANGED notRetry

\* on_end puts the EndTraceTask of a trace whose StartTraceTask is on the
\* queue or in the backend call.
RtPut ==
    /\ rtWhere = "none"
    /\ rtWhere' = "queue"
    /\ UNCHANGED <<rtNow, rtRetry, rtReady, rtAttempts, rtWarned,
                   rtCompletion, rtExports>>
    /\ UNCHANGED notRetry

\* StartTraceTask.handle completes the request id.
RtStartResolves ==
    /\ rtWhere # "none"
    /\ ~rtReady
    /\ rtReady' = TRUE
    /\ UNCHANGED <<rtNow, rtWhere, rtRetry, rtAttempts, rtWarned,
                   rtCompletion, rtExports>>
    /\ UNCHANGED notRetry

\* _handle_task: the drain thread takes the task and submits _handle(task).
RtDrainTake ==
    /\ rtWhere = "queue"
    /\ rtWhere' = "worker"
    /\ UNCHANGED <<rtNow, rtRetry, rtReady, rtAttempts, rtWarned,
                   rtCompletion, rtExports>>
    /\ UNCHANGED notRetry

\* _handle(task): task.handle() raises RetryableTraceException while the
\* request id is not ready; the task is put back at once while
\* task.retry < _MAX_RETRY, else the warning is logged and the completion
\* event set. With the request id ready the trace is finalized and the
\* on_end handler called.
RtHandle ==
    /\ rtWhere = "worker"
    /\ rtAttempts' = Append(rtAttempts, rtNow)
    /\ IF ~rtReady
       THEN IF rtRetry < MAX_RETRY
            THEN /\ rtRetry' = rtRetry + 1
                 /\ rtWhere' = "queue"
                 /\ UNCHANGED <<rtWarned, rtCompletion, rtExports>>
            ELSE /\ rtWarned' = TRUE
                 /\ rtCompletion' = TRUE
                 /\ rtWhere' = "dropped"
                 /\ UNCHANGED <<rtRetry, rtExports>>
       ELSE /\ rtExports' = rtExports + 1
            /\ rtCompletion' = TRUE
            /\ rtWhere' = "handled"
            /\ UNCHANGED <<rtRetry, rtWarned>>
    /\ UNCHANGED <<rtNow, rtReady>>
    /\ UNCHANGED notRetry

NextRetry ==
    \/ RtTick
    \/ RtPut
    \/ RtStartResolves
    \/ RtDrainTake
    \/ RtHandle

-----------------------------------------------------------------------------
(***************************************************************************)
(* Part XVI: MlflowSpanProcessor.on_start and the backend start-trace call *)
(***************************************************************************)
\* The spans of a trace at most.
MaxTraceSpans == 2

\* The request id the backend gives at its n-th start-trace call.
BackendRequestId(n) == 100 + n

InitOnStart ==
    /\ osReg = [t \in TraceIds |-> NoneId]
    /\ osCalls = [t \in TraceIds |-> 0]
    /\ osBackend = 0
    /\ osTotal = [t \in TraceIds |-> 0]
    /\ osOpen = [t \in TraceIds |-> 0]

\* on_start(span) for a span with trace id t:
\* request_id = get_request_id_from_trace_id(trace_id); when there is none,
\* _start_trace calls the backend (logging is synchronous) and
\* register_trace stores the trace info it returned.
OsOnStart(t) ==
    /\ IF osReg[t] = NoneId
       THEN /\ osBackend' = osBackend + 1
            /\ osCalls' = [osCalls EXCEPT ![t] = @ + 1]
            /\ osReg' = [osReg EXCEPT ![t] = BackendRequestId(osBackend + 1)]
       ELSE UNCHANGED <<osReg, osCalls, osBackend>>
    /\ osTotal' = [osTotal EXCEPT ![t] = @ + 1]
    /\ osOpen' = [osOpen EXCEPT ![t] = @ + 1]
    /\ UNCHANGED notOnStart

\* The first span of a new trace starts: its root span.
OsStartRoot(t) ==
    /\ osTotal[t] = 0
    /\ OsOnStart(t)

\* A later span of the trace starts, under a span that is open.
OsStartChild(t) ==
    /\ osOpen[t] > 0
    /\ osTotal[t] < MaxTraceSpans
    /\ OsOnStart(t)

\* A span ends. on_end returns for a span with a parent; the root span,
\* which ends last, is exported, and the exporter pops the trace.
OsEndSpan(t) ==
    /\ osOpen[t] > 0
    /\ osOpen' = [osOpen EXCEPT ![t] = @ - 1]
    /\ osReg' = IF osOpen[t] = 1 THEN [osReg EXCEPT ![t] = NoneId] ELSE osReg
    /\ UNCHANGED <<osCalls, osBackend, osTotal>>
    /\ UNCHANGED notOnStart

\* The TTLCache drops a trace that is older than the time to live, or the
\* oldest trace when the buffer is full.
OsEvict(t) ==
    /\ osReg[t] # NoneId
    /\ osReg' = [osReg EXCEPT ![t] = NoneId]
    /\ UNCHANGED <<osCalls, osBackend, osTotal, osOpen>>
    /\ UNCHANGED notOnStart

NextOnStart ==
    \/ \E t \in TraceIds : OsStartRoot(t)
    \/ \E t \in TraceIds : OsStartChild(t)
    \/ \E t \in TraceIds : OsEndSpan(t)
    \/ \E t \in TraceIds : OsEvict(t)

-----------------------------------------------------------------------------
(***************************************************************************)
(* Part XVII: put and activate of a fresh AsyncTraceTaskQueue, called by   *)
(* several threads                                                         *)
(***************************************************************************)
\* The calls each thread makes on the queue.
MaxQueueCalls == 2

QaTask(th) == <<th, qaCalls[th]>>

InitActivate ==
    /\ qaPc = [th \in Threads |-> "idle"]
    /\ qaCall = [th \in Threads |-> "none"]
    /\ qaCalls = [th \in Threads |-> 0]
    /\ qaLock = NoneId
    /\ qaActivated = FALSE
    /\ qaDrainThreads = 0
    /\ qaPools = 0
    /\ qaHooks = 0
    /\ qaQueue = <<>>
    /\ qaSubmitted = {}
    /\ qaRaised = {}
    /\ qaReturned = {}

\* A thread calls put(task) or activate().
QaCall(th, op) ==
    /\ qaPc[th] = "idle"
    /\ qaCalls[th] < MaxQueueCalls
    /\ qaCalls' = [qaCalls EXCEPT ![th] = @ + 1]
    /\ qaCall' = [qaCall EXCEPT ![th] = op]
    /\ qaPc' = [qaPc EXCEPT ![th] = IF op = "put" THEN "put_check" ELSE "act_lock"]
    /\ UNCHANGED <<qaLock, qaActivated, qaDrainThreads, qaPools, qaHooks,
                   qaQueue, qaSubmitted, qaRaised, qaReturned>>
    /\ UNCHANGED notActivate

\* put: if not self.is_active(): self.activate(). The flag is read without
\* the lock.
QaPutCheck(th) ==
    /\ qaPc[th] = "put_check"
    /\ qaPc' = [qaPc EXCEPT ![th] = IF qaActivated THEN "put_enqueue" ELSE "act_lock"]
    /\ UNCHANGED <<qaCall, qaCalls, qaLock, qaActivated, qaDrainThreads, qaPools,
                   qaHooks, qaQueue, qaSubmitted, qaRaised, qaReturned>>
    /\ UNCHANGED notActivate

\* activate: with self._lock: the thread waits until the lock is free.
QaActLock(th) ==
    /\ qaPc[th] = "act_lock"
    /\ qaLock = NoneId
    /\ qaLock' = th
    /\ qaPc' = [qaPc EXCEPT ![th] = "act_check"]
    /\ UNCHANGED <<qaCall, qaCalls, qaActivated, qaDrainThreads, qaPools,
                   qaHooks, qaQueue, qaSubmitted, qaRaised, qaReturned>>
    /\ UNCHANGED notActivate

\* The thread leaves activate: back in put, or the call is over.
QaAfterActivate(th) == IF qaCall[th] = "put" THEN "put_enqueue" ELSE "idle"

\* activate, holding the lock: if self._is_activated: return. The mutant
\* does not test the flag.
QaActCheckUnchecked(th) ==
    /\ qaPc[th] = "act_check"
    /\ qaPc' = [qaPc EXCEPT ![th] = "act_setup"]
    /\ UNCHANGED <<qaLock, qaCall>>
    /\ UNCHANGED <<qaCalls, qaActivated, qaDrainThreads, qaPools, qaHooks,
                   qaQueue, qaSubmitted, qaRaised, qaReturned>>
    /\ UNCHANGED notActivate
QaActCheck(th) ==
    /\ qaPc[th] = "act_check"
    /\ IF qaActivated
       THEN /\ qaLock' = NoneId
            /\ qaPc' = [qaPc EXCEPT ![th] = QaAfterActivate(th)]
            /\ qaCall' = [qaCall EXCEPT ![th] = IF @ = "put" THEN @ ELSE "none"]
       ELSE /\ qaPc' = [qaPc EXCEPT ![th] = "act_setup"]
            /\ UNCHANGED <<qaLock, qaCall>>
    /\ UNCHANGED <<qaCalls, qaActivated, qaDrainThreads, qaPools, qaHooks,
                   qaQueue, qaSubmitted, qaRaised, qaReturned>>
    /\ UNCHANGED notActivate

\* activate: self._set_up_logging_thread(), which takes the lock again (an
\* RLock, held by this thread), creates the drain thread and the two pools
\* and starts the thread.
QaSetUpLoggingThread(th) ==
    /\ qaPc[th] = "act_setup"
    /\ qaLock = th
    /\ qaDrainThreads' = qaDrainThreads + 1
    /\ qaPools' = qaPools + 1
    /\ qaPc' = [qaPc EXCEPT ![th] = "act_finish"]
    /\ UNCHANGED <<qaCall, qaCalls, qaLock, qaActivated, qaHooks, qaQueue,
                   qaSubmitted, qaRaised, qaReturned>>
    /\ UNCHANGED notActivate

\* activate: atexit.register(self._at_exit_callback);
\* self._is_activated = True; the with-block is left.
QaActFinish(th) ==
    /\ qaPc[th] = "act_finish"
    /\ qaHooks' = qaHooks + 1
    /\ qaActivated' = TRUE
    /\ qaLock' = NoneId
    /\ qaPc' = [qaPc EXCEPT ![th] = QaAfterActivate(th)]
    /\ qaCall' = [qaCall EXCEPT ![th] = IF @ = "put" THEN @ ELSE "none"]
    /\ UNCHANGED <<qaCalls, qaDrainThreads, qaPools, qaQueue, qaSubmitted,
                   qaRaised, qaReturned>>
    /\ UNCHANGED notActivate

\* put: self._queue.put(task)
QaPutEnqueue(th) ==
    /\ qaPc[th] = "put_enqueue"
    /\ qaQueue' = Append(qaQueue, QaTask(th))
    /\ qaPc' = [qaPc EXCEPT ![th] = "put_submit"]
    /\ UNCHANGED <<qaCall, qaCalls, qaLock, qaActivated, qaDrainThreads, qaPools,
                   qaHooks, qaSubmitted, qaRaised, qaReturned>>
    /\ UNCHANGED notActivate

\* put: self._trace_status_check_threadpool.submit(self._wait_for_task,
\* task); the attribute exists once _set_up_logging_thread has run.
QaPutSubmit(th) ==
    /\ qaPc[th] = "put_submit"
    /\ IF qaPools > 0
       THEN /\ qaSubmitted' = qaSubmitted \cup {QaTask(th)}
            /\ qaReturned' = qaReturned \cup {QaTask(th)}
            /\ UNCHANGED qaRaised
       ELSE /\ qaRaised' = qaRaised \cup {QaTask(th)}
            /\ UNCHANGED <<qaSubmitted, qaReturned>>
    /\ qaCall' = [qaCall EXCEPT ![th] = "none"]
    /\ qaPc' = [qaPc EXCEPT ![th] = "idle"]
    /\ UNCHANGED <<qaCalls, qaLock, qaActivated, qaDrainThreads, qaPools,
                   qaHooks, qaQueue>>
    /\ UNCHANGED notActivate

NextActivate ==
    \/ \E th \in Threads, op \in {"put", "activate"} : QaCall(th, op)
    \/ \E th \in Threads : QaPutCheck(th)
    \/ \E th \in Threads : QaActLock(th)
    \/ \E th \in Threads : QaActCheck(th)
    \/ \E th \in Threads : QaSetUpLoggingThread(th)
    \/ \E th \in Threads : QaActFinish(th)
    \/ \E th \in Threads : QaPutEnqueue(th)
    \/ \E th \in Threads : QaPutSubmit(th)

-----------------------------------------------------------------------------
(***************************************************************************)
(* Part XVIII: MlflowSpanExporter.export of one root span and the display  *)
(* hook                                                                    *)
(***************************************************************************)
\* The export calls of a run.
MaxExportCalls == 2

NoExportCall == [display_on_notebook |-> TRUE, hook_raises |-> FALSE,
                 in_evaluation |-> FALSE, async |-> FALSE, backend_ok |-> TRUE]

\* display_handler.display_traces([trace]): nothing is shown when display is
\* disabled by the configuration; else the hook runs, and it may raise.
DisplayTraces(display_on_notebook, hook_raises) ==
    IF ~display_on_notebook THEN "skipped"
    ELSE IF hook_raises THEN "raised" ELSE "displayed"

InitDisplay ==
    /\ dxPc = "idle"
    /\ dxIn = NoExportCall
    /\ dxCalls = 0
    /\ dxDisplayed = FALSE
    /\ dxLogged = FALSE
    /\ dxEscaped = FALSE

\* The root span of a registered trace has ended and the processor calls
\* export([span]).
DxCall ==
    /\ dxPc \in {"idle", "done"}
    /\ dxCalls < MaxExportCalls
    /\ dxCalls' = dxCalls + 1
    /\ \E d \in BOOLEAN, r \in BOOLEAN, ev \in BOOLEAN, a \in BOOLEAN, ok \in BOOLEAN :
          dxIn' = [display_on_notebook |-> d, hook_raises |-> r,
                   in_evaluation |-> ev, async |-> a, backend_ok |-> ok]
    /\ dxPc' = "called"
    /\ dxDisplayed' = FALSE
    /\ dxLogged' = FALSE
    /\ dxEscaped' = FALSE
    /\ UNCHANGED notDisplay

\* export: the trace is popped and put into TRACE_BUFFER; outside an
\* evaluation display_traces is called, with no try around it, so what it
\* raises leaves export; then the span tag is made and _log_trace is
\* called, each inside try/except. With asynchronous logging
\* log_trace_async raises TypeError, which the except clause logs.
DxExport ==
    /\ dxPc = "called"
    /\ LET shown == IF dxIn.in_evaluation THEN "skipped"
                    ELSE DisplayTraces(dxIn.display_on_notebook, dxIn.hook_raises)
       IN /\ dxDisplayed' = (shown = "displayed")
          /\ dxEscaped' = (shown = "raised")
          /\ dxLogged' = (shown # "raised" /\ ~dxIn.async /\ dxIn.backend_ok)
    /\ dxPc' = "done"
    /\ UNCHANGED <<dxIn, dxCalls>>
    /\ UNCHANGED notDisplay

NextDisplay ==
    \/ DxCall
    \/ DxExport

-----------------------------------------------------------------------------
(***************************************************************************)
(* Specifications                                                          *)
(***************************************************************************)
vars == <<tmVars, aqVars, wrVars, mgVars, spVars, ckVars, stVars, kVars, gsVars, tgVars, xVars, lsVars, rVars, cfVars, rtVars, osVars, qaVars, dxVars>>

Init ==
    /\ InitTM /\ InitAsync /\ InitWrap /\ InitMerge /\ InitSpans
    /\ InitClock /\ InitStatus
    /\ InitCalls
    /\ InitStream
    /\ InitTags
    /\ InitExport
    /\ InitLiveSpan
    /\ InitSetTag
    /\ InitConfig
    /\ InitRetry
    /\ InitOnStart
    /\ InitActivate
    /\ InitDisplay

SpecTM == Init /\ [][NextTM]_vars

SpecAsync == Init /\ [][NextAsync]_vars

SpecWrap == Init /\ [][NextWrap]_vars

SpecMerge == Init /\ [][NextMerge]_vars

SpecSpans == Init /\ [][NextSpans]_vars

SpecClock == Init /\ [][NextClock]_vars

SpecStatus == Init /\ [][NextStatus]_vars

SpecCalls == Init /\ [][NextCalls]_vars

SpecStream == Init /\ [][NextStream]_vars

SpecTags == Init /\ [][NextTags]_vars

SpecExport == Init /\ [][NextExport]_vars

SpecLiveSpan == Init /\ [][NextLiveSpan]_vars

SpecSetTag == Init /\ [][NextSetTag]_vars

SpecConfig == Init /\ [][NextConfig]_vars

SpecRetry == Init /\ [][NextRetry]_vars

SpecOnStart == Init /\ [][NextOnStart]_vars

SpecActivate == Init /\ [][NextActivate]_vars

SpecDisplay == Init /\ [][NextDisplay]_vars

Next ==
    \/ NextTM \/ NextAsync \/ NextWrap \/ NextMerge \/ NextSpans
    \/ NextClock \/ NextStatus
    \/ NextCalls
    \/ NextStream
    \/ NextTags
    \/ NextExport
    \/ NextLiveSpan
    \/ NextSetTag
    \/ NextConfig
    \/ NextRetry
    \/ NextOnStart
    \/ NextActivate
    \/ NextDisplay

Spec == Init /\ [][Next]_vars

-----------------------------------------------------------------------------
(***************************************************************************)
(* Properties of the trace manager                                         *)
(***************************************************************************)
\* The span ids of an exported aggregate.
SpanIdsOf(spans) == {s[1] : s \in spans}

\* C2 (pop-once): the pop_trace that removes a registered trace returns its
\* aggregate with every span registered so far and does not raise; at most
\* one pop_trace receives the aggregate of a trace.
C2_PopOnce ==
    /\ \A th \in Threads : ret[th].kind # "RuntimeError"
    /\ \A th \in Threads :
           ret[th].kind = "trace" => regAtPop[th] \subseteq SpanIdsOf(ret[th].spans)
    /\ \A t \in TraceIds : received[t] <= 1

\* C3 (no lost registration): every span whose update_span or
\* get_or_create_mlflow_span call has returned is in the aggregate of its
\* trace, a pop_trace that returns the aggregate returns every span that was
\* registered when it removed the trace, and an aggregate holds only spans
\* of its own trace.
C3_NoLostRegistration ==
    /\ \A t \in TraceIds : regDone[t] \subseteq DOMAIN traceObj[t].span_dict
    /\ \A th \in Threads :
           ret[th].kind = "trace" => regAtPop[th] \subseteq SpanIdsOf(ret[th].spans)
    /\ \A t \in TraceIds : \A sid \in DOMAIN traceObj[t].span_dict :
           traceObj[t].span_dict[sid].trace_id = t

\* Two spans of one trace were registered by overlapping calls and a later
\* pop_trace returned both of them.
C3_Witness ==
    \E th \in Threads :
        /\ ret[th].kind = "trace"
        /\ ret[th].trace_id \in overlapped
        /\ regAtPop[th] = SpanIds
        /\ Cardinality(ret[th].spans) = NumSpans

-----------------------------------------------------------------------------
(***************************************************************************)
(* Properties of the asynchronous trace task queue                         *)
(***************************************************************************)
\* The tasks in the queue.
Queued == {queue[i] : i \in DOMAIN queue}

\* No backend call has raised and no put has raised.
NoFailureInjected == backendFailed = {} /\ putFailed = {}

\* C4 (async ordering retry): an EndTraceTask that was taken before its
\* StartTraceTask resolved the request id is, once the start task has
\* completed and the end task is finished with, handled successfully: the
\* exporter was invoked exactly once for its trace and the task did not fail.
C4_EndTaskRetriedUntilHandled ==
    NoFailureInjected =>
        \A t \in TraceIds :
            /\ exported[t] <= 1
            /\ (EndTask(t) \in completion /\ t \in futureReady)
                   => (exported[t] = 1 /\ EndTask(t) \notin failed)

\* flush waits for the status-check pool, the drain thread has ended and the
\* worker pool has run everything, and a task put before the call has its
\* completion event unset: nothing can set it any more, flush never returns.
FlushStuck ==
    /\ flushPc = "wait_status"
    /\ (putBeforeFlush \cap waiters) \ completion # {}

\* C5 (flush): flush does not block forever, and when it returns every task
\* put before the call (end tasks put back for a retry included) has been
\* handled: none of them is in the queue, each is completed without an
\* exception, and the trace of every finished root span was exported.
C5_FlushHandlesEverything ==
    NoFailureInjected =>
        /\ ~FlushStuck
        /\ flushPc = "done" =>
               /\ putBeforeFlush \cap Queued = {}
               /\ putBeforeFlush \subseteq completion \ failed
               /\ \A t \in TraceIds :
                      EndTask(t) \in putBeforeFlush => exported[t] = 1

\* Once flush is stuck it stays stuck.
FlushStuckForever == [][FlushStuck => FlushStuck']_vars

-----------------------------------------------------------------------------
(***************************************************************************)
(* Properties of the trace decorator                                       *)
(***************************************************************************)
\* C1 (fail-open): whichever tracing calls fail, a finished call of a
\* decorated function has called the function once and has given its caller
\* what the undecorated function gives: the same chunks and the same return
\* value or exception, and never an exception of the tracing layer.
C1_FailOpen ==
    wPc = "done" =>
        /\ wFnCalls = 1
        /\ wYielded = Unwrapped(wFn).chunks
        /\ wResult = Unwrapped(wFn).result

-----------------------------------------------------------------------------
(***************************************************************************)
(* Properties of add_trace                                                 *)
(***************************************************************************)
\* A valid incoming trace: ended, the root first and the only span without
\* a parent, every other span after its parent.
ValidTrace(trace) ==
    /\ trace.status \in EndStatuses
    /\ trace.spans # <<>>
    /\ trace.spans[1].parent_id = NoneId
    /\ \A i \in DOMAIN trace.spans : i > 1 =>
           \E j \in 1..(i - 1) : trace.spans[j].span_id = trace.spans[i].parent_id

\* The span and the trace add_trace merges under, and that trace's aggregate
\* after the call (exported already when add_trace made the root itself).
MgUnderNewRoot == mgTarget = NoneId /\ mgActive = NoneId
MgTargetId == IF MgUnderNewRoot THEN SynthSpan ELSE MgTargetSpan
MgTargetTrace == IF MgUnderNewRoot THEN SynthTrace ELSE LocalTrace
MgTargetFound == MgUnderNewRoot \/ LocalTrace \in DOMAIN mgReg
MgAggregate ==
    IF MgUnderNewRoot
    THEN IF mgExported = {} THEN <<>> ELSE CHOOSE a \in mgExported : TRUE
    ELSE IF LocalTrace \in DOMAIN mgReg THEN mgReg[LocalTrace] ELSE <<>>

\* C8 (trace merge): add_trace of a valid ended trace under a target span
\* whose trace is registered merges it, and afterwards every incoming span
\* is in the target trace's aggregate with the target's trace id and
\* request id; the incoming root has the target span as its parent and every
\* other span has the parent it had.
C8_MergeUnderTarget ==
    (mgPc = "done" /\ ValidTrace(mgTrace) /\ MgTargetFound) =>
        /\ mgResult = "merged"
        /\ \A i \in DOMAIN mgTrace.spans :
               LET s == mgTrace.spans[i]
               IN /\ s.span_id \in DOMAIN MgAggregate
                  /\ MgAggregate[s.span_id].trace_id = MgTargetTrace
                  /\ MgAggregate[s.span_id].request_id = RequestIdOf(MgTargetTrace)
                  /\ MgAggregate[s.span_id].parent_id =
                         IF i = 1 THEN MgTargetId ELSE s.parent_id

\* A valid trace of the largest size was merged under a given target span.
C8_Witness ==
    /\ mgPc = "done"
    /\ mgResult = "merged"
    /\ ValidTrace(mgTrace)
    /\ Len(mgTrace.spans) = MaxIncoming
    /\ mgTarget = LocalChild

-----------------------------------------------------------------------------
(***************************************************************************)
(* Properties of spans and the active-span context                         *)
(***************************************************************************)
\* C6 (generator span isolation): before the first step of a traced
\* generator, between two steps and after its end the context is the one the
\* code outside the generator built, so get_current_active_span() returns
\* what it returns without the stream and never the generator's span; while
\* the body runs, the generator's span is attached on top of that context
\* and is the active span as long as the body has entered no span of its own
\* and the trace manager still holds the span.
C6_GeneratorSpanIsolation ==
    /\ sGen.pc \in {"new", "suspended", "done"} =>
           /\ sCtx = sConsumer
           /\ GetCurrentActiveSpan = CurrentOtelSpan(sConsumer)
           /\ sGen.span # NoneId => GetCurrentActiveSpan # sGen.span
    /\ sGen.pc = "running" =>
           /\ Len(sCtx) > Len(sConsumer)
           /\ SubSeq(sCtx, 1, Len(sConsumer)) = sConsumer
           /\ sCtx[Len(sConsumer) + 1] = sGen.span
           /\ Len(sCtx) = Len(sConsumer) + 1 =>
                  GetCurrentActiveSpan =
                      GetSpanFromId(sTraces, RequestIdOf(sSpans[sGen.span].trace_id),
                                    sGen.span)

\* A generator consumed inside an enclosing span has yielded every chunk and
\* has ended, and the enclosing span is the active span again.
C6_Witness ==
    /\ sGen.pc = "done"
    /\ sGen.yielded = MaxChunks
    /\ sConsumer # <<>>
    /\ sSpans[sGen.span].parent_id = sConsumer[Len(sConsumer)]
    /\ GetCurrentActiveSpan = sConsumer[Len(sConsumer)]

\* The spans of an aggregate that have no parent.
RootsOf(span_dict) == {sid \in DOMAIN span_dict : span_dict[sid].parent_id = NoneId}

\* C7 (root exclusivity): every registered aggregate that holds a span, and
\* every exported aggregate, has exactly one span without a parent.
C7_RootExclusivity ==
    /\ \A tid \in DOMAIN sTraces :
           DOMAIN sTraces[tid] # {} => Cardinality(RootsOf(sTraces[tid])) = 1
    /\ \A a \in sExported :
           DOMAIN a # {} => Cardinality(RootsOf(a)) = 1

-----------------------------------------------------------------------------
(***************************************************************************)
(* Properties of the start time and of the status                          *)
(***************************************************************************)
\* C9 (duration exclusion): the start time of the first span of a trace is
\* the time at which on_start's backend call had returned, so the duration
\* of the ended span is the time that passed after on_start and holds none
\* of the backend call's latency.
C9_DurationExcludesBackendLatency ==
    /\ cPc \in {"running", "ended"} /\ cFirst => cStart = cNow - cWork
    /\ cPc = "ended" /\ cFirst => cEnd - cStart = cWork

\* The first span of a trace has ended after a backend call that took time
\* and a body that took time.
C9_Witness ==
    /\ cPc = "ended"
    /\ cFirst
    /\ ~cAsync
    /\ cLatency > 0
    /\ cWork > 0

\* C10 (status default): an ended span whose status the caller never set is
\* ERROR when an exception was recorded on it and OK otherwise, and a span
\* that was ERROR when it was ended is ERROR afterwards.
C10_StatusDefault ==
    stEnded =>
        /\ ~stSetStatusCalled =>
               stStatus = IF ExceptionRecorded(stEvents) THEN "ERROR" ELSE "OK"
        /\ stStatusAtEnd = "ERROR" => stStatus = "ERROR"

-----------------------------------------------------------------------------
(***************************************************************************)
(* Properties of decorated calls and start_span blocks                     *)
(***************************************************************************)
\* The exports of the trace tid.
ExportsOf(tid) == {i \in DOMAIN kExported : kExported[i].trace_id = tid}

\* The spans that were started with no span active.
TopLevelSpans == {s \in DOMAIN kSpans : kSpans[s].active_at_enter = NoneId}

\* C11 (one trace per top-level call): a decorated call made with no span
\* active that has returned has exactly one exported trace, whose root span
\* is the call's span, named after the function or the given name, with the
\* bound arguments without self as inputs, the returned value as outputs
\* and status OK; a decorated call made inside a span is a child of that
\* span in the same trace and is the root of no export; and there are as
\* many traces as top-level spans.
C11_OneTracePerCall ==
    /\ \A s \in DOMAIN kSpans :
          kSpans[s].kind = "fn" =>
             /\ (s \in TopLevelSpans /\ kSpans[s].result[1] = "return") =>
                   /\ Cardinality(ExportsOf(kSpans[s].trace_id)) = 1
                   /\ \A i \in ExportsOf(kSpans[s].trace_id) :
                         kExported[i].root = s /\ kExported[i].status = "OK"
                   /\ kSpans[s].name = SpanName(kSpans[s].call)
                   /\ kSpans[s].inputs = WithoutKey(BoundArguments(kSpans[s].call), "self")
                   /\ kSpans[s].outputs = kSpans[s].result[2]
                   /\ kSpans[s].status = "OK"
             /\ s \notin TopLevelSpans =>
                   /\ kSpans[s].parent_id = kSpans[s].active_at_enter
                   /\ kSpans[s].trace_id = kSpans[kSpans[s].active_at_enter].trace_id
                   /\ \A i \in DOMAIN kExported : kExported[i].root # s
    /\ kNextTrace = Cardinality(TopLevelSpans)

C15_StartSpanNesting ==
    \A s \in DOMAIN kSpans :
       /\ kSpans[s].parent_id = kSpans[s].active_at_enter
       /\ (\E i \in DOMAIN kStack : kStack[i] = s) => kSpans[s].ends = 0
       /\ (\A i \in DOMAIN kStack : kStack[i] # s) =>
             /\ kSpans[s].ends = 1
             /\ kSpans[s].status =
                   IF kSpans[s].result[1] = "raise" THEN "ERROR" ELSE "OK"
             /\ kSpans[s].active_after_exit = kSpans[s].active_at_enter

\* A with-block inside a with-block was left by an exception, which the
\* outer body caught, and the outer block was left normally.
C15_Witness ==
    \E s, t \in DOMAIN kSpans :
       /\ kSpans[s].kind = "with" /\ kSpans[t].kind = "with"
       /\ kSpans[t].parent_id = s
       /\ kSpans[t].result[1] = "raise"
       /\ kSpans[s].result[1] = "return"

-----------------------------------------------------------------------------
(***************************************************************************)
(* Properties of the wrapper of a decorated generator                      *)
(***************************************************************************)
\* The chunk events of the first n chunks.
ChunkEventsUpTo(n) == [i \in 1..n |-> <<"mlflow.chunk.item", i - 1>>]

\* The outputs the decorator is specified to set for the chunks.
ExpectedOutputs(chunks, reducer) ==
    IF reducer = "sum" THEN ValueOutputs(SumSeq(chunks)) ELSE ListOutputs(chunks)

\* C13 (stream consumed to exhaustion): the consumer receives the chunks of
\* the generator in order; the span has one chunk event per received chunk,
\* numbered from 0 in the order of the chunks; and when the generator is
\* exhausted the span has ended once, with status OK and with the outputs
\* output_reducer(chunks), or the list of the chunks when there is no
\* reducer (or the reducer raised).
C13_StreamExhausted ==
    /\ gReceived = SubSeq(gFn.chunks, 1, Len(gReceived))
    /\ SubSeq(gSpan.events, 1, Len(gReceived)) = ChunkEventsUpTo(Len(gReceived))
    /\ gPc # "done" => gSpan.ends = 0 /\ Len(gSpan.events) = Len(gReceived)
    /\ (gPc = "done" /\ ~gFn.raises) =>
          /\ gReceived = gFn.chunks
          /\ gSpan.events = ChunkEventsUpTo(Len(gFn.chunks))
          /\ gSpan.ends = 1
          /\ gSpan.status = "OK"
          /\ gSpan.outputs = ExpectedOutputs(gFn.chunks, gFn.reducer)

\* A generator with a reducer has yielded MaxGenChunks chunks and is
\* exhausted.
C13_Witness ==
    /\ gPc = "done"
    /\ gCaller = "stop"
    /\ ~gFn.raises
    /\ gFn.reducer = "sum"
    /\ Len(gReceived) = MaxGenChunks

\* C14 (exception in the middle of a stream): when the body of the
\* generator has raised after k chunks, the consumer has received the k
\* chunks and then the exception, and the span has ended once with status
\* ERROR and with k chunk events followed by one exception event.
C14_StreamError ==
    /\ gCaller = "raise" => gPc = "done" /\ gFn.raises
    /\ (gPc = "done" /\ gFn.raises) =>
          /\ gReceived = gFn.chunks
          /\ gSpan.events = ChunkEventsUpTo(Len(gFn.chunks)) \o <<<<"exception", 0>>>>
          /\ gSpan.ends = 1
          /\ gSpan.status = "ERROR"

\* The body of a generator has raised after a chunk and the consumer has the
\* exception.
C14_Witness ==
    /\ gCaller = "raise"
    /\ Len(gReceived) > 0

-----------------------------------------------------------------------------
(***************************************************************************)
(* Properties of trace tags                                                *)
(***************************************************************************)
\* C16 (tags of the exported trace): every tag the application set while the
\* trace was in progress is among the tags of the exported trace, with the
\* value of the last update of its key.
C16_TagsExported ==
    tgPc = "exported" =>
        \A k \in DOMAIN tgExpected :
            k \in DOMAIN tgExportedTags /\ tgExportedTags[k] = tgExpected[k]


-----------------------------------------------------------------------------
(***************************************************************************)
(* Properties of Part XI                                                   *)
(***************************************************************************)
\* The processor has nothing left to do for trace t.
XSettled(t) == XStartTask(t) \notin xTasks /\ XEndTask(t) \notin xTasks

\* C17: with asynchronous logging no backend call runs on the caller's
\* thread; once the traced call has returned, the completed trace (final
\* status) is in memory, in the trace manager or in the trace buffer; and a
\* trace whose call returned before a flush is in the backend when the flush
\* has returned.
C17_AsyncOffCallerThread ==
    xMode = "async" =>
        /\ xCallerIO = {}
        /\ \A t \in TraceIds : xPc[t] = "returned" =>
              /\ (t \in xBuffer \/ xManager[t] \in {"future", "ready"})
              /\ xStatus[t] = "OK"
        /\ \A t \in xFlushed : xBackend[t] = "logged"

\* C18: a trace whose backend start-trace call failed is registered all the
\* same (its call runs with a live span, not a NoOpSpan), and once its root
\* span has ended and its tasks are handled it is completed in-process: final
\* status, in the trace buffer.
C18_StartFailureFallsBack ==
    \A t \in xStartFailed :
        /\ xPc[t] # "noop"
        /\ xManager[t] # "none"
        /\ (xPc[t] = "returned" /\ XSettled(t)) =>
              (t \in xBuffer /\ xStatus[t] = "OK")

\* C19: a trace whose backend log-trace call raised is warned about, its
\* call has returned, the write was made once, the trace is in the trace
\* buffer and get_last_active_trace has a trace of the buffer to return.
C19_LogFailureKeepsTrace ==
    \A t \in xLogFailed :
        /\ t \in xWarned
        /\ xPc[t] = "returned"
        /\ xLogCalls[t] = 1
        /\ t \in xBuffer
        /\ \E b \in xBuffer :
              LastActiveTraceId(xOwner[t], FALSE) = RequestIdOf(b)

\* C20: the thread-local pointer of a thread is the trace that thread
\* completed last, and the global pointer is a trace that was exported.
C20_LastActivePointers ==
    /\ \A th \in Threads : xLastCompleted[th] # NoneId =>
          LastActiveTraceId(th, TRUE) = RequestIdOf(xLastCompleted[th])
    /\ xBuffer # {} =>
          \E b \in xBuffer : LastActiveTraceId(1, FALSE) = RequestIdOf(b)


-----------------------------------------------------------------------------
(***************************************************************************)
(* Properties of the calls on a span                                       *)
(***************************************************************************)
\* C21: the end time of a live span is assigned at most once and on_end is
\* called at most once; a call on a span that had ended (a second end, a
\* setter) raises nothing and changes none of the span's attributes,
\* status, events and end time.
C21_EndAtMostOnce ==
    /\ [](lsKind = "live" =>
            /\ Len(lsEndAssigned) <= 1
            /\ lsOnEnd <= 1
            /\ lsEndedBefore => lsRaised = "none")
    /\ [][(lsKind = "live" /\ lsEndTime # NoneId) =>
            /\ lsAttrs' = lsAttrs
            /\ lsStatus' = lsStatus
            /\ lsEvents' = lsEvents
            /\ lsEndTime' = lsEndTime
            /\ lsOnEnd' = lsOnEnd]_vars

\* A live span was ended, time passed, and end() was called again with a
\* warning.
C21_Witness ==
    /\ lsKind = "live"
    /\ lsEndedBefore
    /\ lsWarned
    /\ lsEndTime < lsNow
    /\ lsOnEnd = 1

\* C22: a call on an immutable span or on a no-op span raises nothing.
C22_NonLiveNeverRaises ==
    lsKind \in {"immutable", "noop"} => lsRaised = "none"

-----------------------------------------------------------------------------
(***************************************************************************)
(* Properties of add_trace's errors and of the merged tags                 *)
(***************************************************************************)
\* The span ids of the trace that _merge_trace merges into, before the
\* merge: those of the local trace under the target span, or the new root.
MgBaseSpanIds ==
    IF MgTargetSpan # NoneId THEN DOMAIN LocalSpanDict ELSE {SynthSpan}

\* The span id the spans without a parent are merged under.
MgMergeTarget == IF MgTargetSpan # NoneId THEN MgTargetSpan ELSE SynthSpan

\* The parent of span i of the given trace is not in the target trace when
\* span i is merged: it is neither a span of the target trace nor listed
\* before span i.
MgParentMissing(i) ==
    LET s == mgTrace.spans[i]
        parent == IF s.parent_id # NoneId THEN s.parent_id ELSE MgMergeTarget
    IN parent \notin MgBaseSpanIds \cup {mgTrace.spans[j].span_id : j \in 1..(i - 1)}

\* _merge_trace found the trace and the span to merge under.
MgMergeRan ==
    \/ MgTargetSpan = NoneId
    \/ LocalTrace \in DOMAIN mgReg /\ MgTargetSpan \in DOMAIN LocalSpanDict

\* C23: add_trace ends with the usage error when the given trace is not in
\* a terminal status, and when the merge runs and meets a span whose parent
\* is not yet in the target trace.
C23_AddTraceUsageErrors ==
    mgPc = "done" =>
        /\ mgTrace.status \notin {"OK", "ERROR"} => mgResult = "usage_error"
        /\ (/\ mgTrace.status \in {"OK", "ERROR"}
            /\ MgMergeRan
            /\ \E i \in DOMAIN mgTrace.spans : MgParentMissing(i))
              => mgResult = "usage_error"

\* An ended trace whose second span is the parent of its first was given
\* and add_trace raised.
C23_Witness ==
    /\ mgPc = "done"
    /\ mgResult = "usage_error"
    /\ mgTrace.status = "OK"
    /\ Len(mgTrace.spans) = 2
    /\ mgTrace.spans[1].parent_id = mgTrace.spans[2].span_id

\* The trace that receives the merge.
MgReceiver == IF MgTargetSpan # NoneId THEN LocalTrace ELSE SynthTrace

\* C24: a merge leaves the receiving trace with the keys of both traces,
\* the receiving trace's value for each of its own keys and the incoming
\* value for the others, in the tags and in the request metadata.
C24_ReceivingTagsWin ==
    [][(mgPc = "validated" /\ mgPc' = "done" /\ mgResult' = "merged") =>
          LET own == IF MgReceiver \in DOMAIN mgInfo THEN mgInfo[MgReceiver]
                     ELSE NoInfo
              new == mgInfo'[MgReceiver]
              inc == mgTrace.info
          IN /\ DOMAIN new.tags = DOMAIN own.tags \cup DOMAIN inc.tags
             /\ \A k \in DOMAIN new.tags :
                   new.tags[k] = IF k \in DOMAIN own.tags THEN own.tags[k]
                                 ELSE inc.tags[k]
             /\ DOMAIN new.request_metadata =
                   DOMAIN own.request_metadata \cup DOMAIN inc.request_metadata
             /\ \A k \in DOMAIN new.request_metadata :
                   new.request_metadata[k] =
                       IF k \in DOMAIN own.request_metadata
                       THEN own.request_metadata[k]
                       ELSE inc.request_metadata[k]]_vars

\* A trace with the tag "food" was merged into a trace that had the tag
\* "food" with another value, and the receiving trace has its value and the
\* incoming tag "fruit".
C24_Witness ==
    /\ mgPc = "done"
    /\ mgResult = "merged"
    /\ MgTargetSpan # NoneId
    /\ "food" \in DOMAIN mgTrace.info.tags
    /\ mgInfo[LocalTrace].tags["food"] = 1
    /\ mgInfo[LocalTrace].tags["fruit"] = 2
    /\ mgInfo[LocalTrace].request_metadata["user"] = 1

\* C25: start_detached_span with a parent span returns a span of the
\* parent's trace (same trace id and request id) whose parent_id is the
\* parent, and starts no new trace; without a parent it returns the root of
\* a new trace, one no earlier span belongs to; in both cases the ambient
\* active span stays as it was.
C25_DetachedSpanParent ==
    [][\A p \in 0..MaxOtelSpans :
         DetachedStart(p) =>
            LET span == sSpans'[Len(sSpans) + 1]
            IN /\ sCtx' = sCtx
               /\ IF p # NoneId
                  THEN /\ span.trace_id = sSpans[p].trace_id
                       /\ span.request_id = sSpans[p].request_id
                       /\ span.parent_id = p
                       /\ sNextTrace' = sNextTrace
                  ELSE /\ span.parent_id = NoneId
                       /\ sNextTrace' # sNextTrace
                       /\ \A j \in DOMAIN sSpans :
                             sSpans[j].trace_id # span.trace_id]_vars

\* The traces registered under the request id.
RRegisteredUnder(request_id) ==
    {t \in DOMAIN rTraces : rTraces[t].request_id = request_id}

\* C26: a set_trace_tag call for a request id under which no trace is
\* registered (never registered, popped or evicted) raises the not-found
\* error and leaves every trace as it was; a call for a registered trace
\* raises nothing, sets tags[key] of that trace to the value and changes no
\* other tag, no other field of the trace, no other trace and no index
\* entry.
C26_SetTraceTagNotFoundOrSet ==
    [][rCalls' # rCalls =>
        LET found == RRegisteredUnder(rCall'.request_id)
            key == rCall'.key
        IN /\ rIndex' = rIndex
           /\ IF found = {}
              THEN /\ rCall'.raised = "RESOURCE_DOES_NOT_EXIST"
                   /\ rTraces' = rTraces
              ELSE /\ rCall'.raised = "none"
                   /\ DOMAIN rTraces' = DOMAIN rTraces
                   /\ \A t \in DOMAIN rTraces :
                         IF t \in found
                         THEN /\ rTraces'[t].tags[key] = PyStr(rCall'.value)
                              /\ DOMAIN rTraces'[t].tags
                                   = DOMAIN rTraces[t].tags \cup {key}
                              /\ \A k \in DOMAIN rTraces[t].tags \ {key} :
                                    rTraces'[t].tags[k] = rTraces[t].tags[k]
                              /\ rTraces'[t].request_id = rTraces[t].request_id
                              /\ rTraces'[t].spans = rTraces[t].spans
                         ELSE rTraces'[t] = rTraces[t]]_vars

\* A call for a trace that was registered and then popped or evicted has
\* raised, after an earlier call has set a tag of a trace that holds a span.
C26_Witness ==
    /\ rCalls = 2
    /\ rCall.raised = "RESOURCE_DOES_NOT_EXIST"
    /\ rIndex[rCall.request_id] # NoneId
    /\ \E t \in DOMAIN rTraces :
          /\ rTraces[t].spans > 0
          /\ rTraces[t].tags # NoTags


\* The option has the value passed, or the value it had when None was
\* passed.
CfOptionSet(passed, before, after) ==
    after = IF passed # "None" THEN passed ELSE before

\* C27: configure sets every option passed to the value passed and leaves
\* every other option as it was, as a plain call and inside its with-block;
\* leaving the with-block restores the configuration that was active before
\* the block; reset_config restores the default values, those the module
\* started with.
C27_ConfigureSetsExactlyPassed ==
    [][cfOps' # cfOps =>
        /\ cfLast'.op \in {"configure", "enter"} =>
              /\ CfOptionSet(cfLast'.wait_for_logging, cfActive.wait_for_logging,
                             cfActive'.wait_for_logging)
              /\ CfOptionSet(cfLast'.display_on_notebook,
                             cfActive.display_on_notebook,
                             cfActive'.display_on_notebook)
        /\ cfLast'.op = "exit" => cfActive' = cfBefore[Len(cfBefore)]
        /\ cfLast'.op = "reset" =>
              /\ cfActive'.wait_for_logging = PyNot(cfEnv)
              /\ cfActive'.display_on_notebook = "True"]_vars

\* The spans that end in the step: open before, or started in the step, and
\* not open after.
SEndedInStep ==
    {s \in DOMAIN sSpans' :
        /\ ~sSpans'[s].open
        /\ s \in DOMAIN sSpans => sSpans[s].open}

\* C28: the end of a span that has a parent exports nothing and removes no
\* trace from the registry; an aggregate is exported, and a trace removed,
\* only in a step in which the root span of that trace ends; and so the root
\* span of the trace of every exported span has ended.
C28_ExportOnlyOnRootEnd ==
    /\ [][\A s \in SEndedInStep :
            sSpans'[s].parent_id # NoneId =>
                /\ sExported' = sExported
                /\ DOMAIN sTraces' = DOMAIN sTraces]_vars
    /\ [][(sExported' # sExported \/ DOMAIN sTraces \ DOMAIN sTraces' # {}) =>
            \E s \in SEndedInStep :
                /\ sSpans'[s].parent_id = NoneId
                /\ DOMAIN sTraces \ DOMAIN sTraces' \subseteq {sSpans'[s].trace_id}
                /\ \A a \in sExported' \ sExported :
                      \A sid \in DOMAIN a : a[sid].trace_id = sSpans'[s].trace_id]_vars
    /\ [](\A a \in sExported :
            \A sid \in DOMAIN a :
                \E r \in DOMAIN sSpans :
                    /\ sSpans[r].trace_id = a[sid].trace_id
                    /\ sSpans[r].parent_id = NoneId
                    /\ ~sSpans[r].open)

\* A span with a parent has ended and its trace is still registered, after
\* another trace was exported.
C28_Witness ==
    /\ sExported # {}
    /\ \E s \in DOMAIN sSpans :
          /\ ~sSpans[s].open
          /\ sSpans[s].parent_id # NoneId
          /\ sSpans[s].trace_id \in DOMAIN sTraces
          /\ s \in DOMAIN sTraces[sSpans[s].trace_id]

\* C29: once the root span of a registered trace was exported, the trace is
\* not in the registry, it is in the trace buffer and the backend's
\* log-trace call was made for it exactly once, however often the export is
\* repeated; and a repeated export makes no backend call and warns of
\* nothing.
C29_ExportLogsOnce ==
    /\ [](\A t \in TraceIds : xExports[t] > 0 =>
            /\ xManager[t] = "popped"
            /\ t \in xBuffer
            /\ xLogCalls[t] = 1)
    /\ [][\A t \in TraceIds :
            (xExports[t] > 0 /\ xExports'[t] # xExports[t]) =>
                /\ xLogCalls' = xLogCalls
                /\ xBackend' = xBackend
                /\ xWarned' = xWarned
                /\ xBuffer' = xBuffer]_vars


\* C30: the attempts on an end task whose request id is unresolved are
\* separated by a backoff (time passes between one attempt and the next);
\* the task is put back at most _MAX_RETRY times; and a task given up at the
\* ceiling was warned about, is not on the queue or in the pool again, has
\* its completion event set (nothing waits for it forever) and was never
\* handed to the exporter.
C30_BoundedRetryWithBackoff ==
    /\ rtRetry <= MAX_RETRY
    /\ \A i \in 1..(Len(rtAttempts) - 1) : rtAttempts[i + 1] > rtAttempts[i]
    /\ rtWhere = "dropped" =>
          /\ rtRetry = MAX_RETRY
          /\ Len(rtAttempts) = MAX_RETRY + 1
          /\ rtWarned
          /\ rtCompletion
          /\ rtExports = 0

\* The task is on the queue, submitted to the worker pool or in its backend
\* call.
TaskPending(task) ==
    \/ task \in Queued
    \/ task \in workItems
    \/ task.kind = "start" /\ task.trace \in inBackend

\* C31: every task put has a status-check future (no put failed to submit
\* one), and every task the queue has finished with, by success, by giving
\* up after the retries or by an exception of its handler, has its
\* completion event set, with the exception recorded on a task whose backend
\* call raised.
C31_CompletionAlwaysSignalled ==
    /\ putFailed = {}
    /\ \A task \in PutSoFar : ~TaskPending(task) => task \in completion
    /\ \A t \in backendFailed : StartTask(t) \in failed

\* The thread is inside the with-block of self._lock.acquire(key): it owns
\* the lock object it looked up.
InCriticalSection(th) ==
    local[th].lock # NoneId /\ lockOwner[local[th].lock] = th

\* C32: no two threads are inside critical sections of the same trace id at
\* the same time, also after pop_trace has discarded the lock of the id; and
\* a thread waiting for a lock waits for a thread that works on the same
\* trace id.
C32_PerTraceMutualExclusion ==
    /\ \A th \in Threads : \A o \in Threads \ {th} :
          (InCriticalSection(th) /\ InCriticalSection(o))
              => local[th].trace_id # local[o].trace_id
    /\ \A th \in Threads :
          (pc[th] = "lock_wait" /\ lockOwner[local[th].lock] # NoneId)
              => local[lockOwner[local[th].lock]].trace_id = local[th].trace_id

\* C33: put never raises, and a task that is in the queue while no flush is
\* in progress has a drain thread that will take it: no task is stranded in
\* the queue after flush has returned, whatever keep_running was, and none
\* is handed to a thread pool that has been shut down.
C33_PutNeverRaisesNorStrands ==
    /\ putFailed = {}
    /\ (flushPc \in {"idle", "done"} /\ queue # <<>>) => drain = "running"

\* The body of the wrapper has run _start_stream_span: the stream has a
\* span.
StreamSpanStarted == gI > 0 \/ gReceived # <<>> \/ gPc \in {"suspended", "done"}

\* C34: when the consumer of a traced generator has stopped before
\* exhaustion, the span of the stream has been ended: no span that was
\* started is left open by a closed or abandoned stream.
C34_AbandonedStreamSpanEnded ==
    (gPc = "closed" /\ StreamSpanStarted) => gSpan.ends = 1

\* C35: a call of add_trace that raises a usage error leaves the in-memory
\* state as it was before the call: no span of the rejected trace and no
\* synthetic root span or trace has been registered, and the tags and
\* metadata of the registered traces are unchanged.
C35_UsageErrorLeavesStateUnchanged ==
    [][(mgResult # "usage_error" /\ mgResult' = "usage_error")
          => (mgReg' = mgReg /\ mgInfo' = mgInfo)]_vars



\* C36: the backend start-trace operation is invoked once for each trace
\* identifier that has a span, at the start of its first span: no start of
\* a later span of the trace makes another call.
C36_StartTraceOncePerTrace ==
    \A t \in TraceIds : osCalls[t] = IF osTotal[t] > 0 THEN 1 ELSE 0

\* C37: when every call on the trace manager has returned, the lock
\* registry and the request id index hold entries only for traces that are
\* in the registry: a popped trace leaves neither a lock nor an index
\* entry, and a call for an unknown id leaves no lock.
C37_BookkeepingOnlyForRegistered ==
    (\A th \in Threads : pc[th] = "idle") =>
        /\ \A k \in LockKeys : trace_locks[k] # NoneId => k \in traces
        /\ \A r \in RequestIds :
              request_id_to_trace_id[r] # NoneId
                  => request_id_to_trace_id[r] \in traces

\* The step of thread th is the lookup self._traces.get(trace_id) of
\* update_span or get_or_create_mlflow_span, for a trace that is not in
\* the registry.
LooksUpMissingTrace(th) ==
    /\ pc[th] \in {"upd_body", "goc_get"}
    /\ pc'[th] # pc[th]
    /\ local[th].trace_id \notin traces

\* The step of thread th is the return of update_span or
\* get_or_create_mlflow_span after a lookup that found no trace.
ReturnsWithoutTrace(th) ==
    /\ pc[th] \in {"release", "goc_lookup"}
    /\ call[th].op \in {"update_span", "get_or_create"}
    /\ ~local[th].found
    /\ pc'[th] = "idle"

\* C38: registering a span whose trace is not in the registry creates no
\* trace aggregate, leaves every aggregate of the registry as it is, and
\* returns without raising (update_span returns, get_or_create_mlflow_span
\* returns the no-op span).
C38_RegisterWithoutTraceIsNoOp ==
    [][\A th \in Threads :
          /\ LooksUpMissingTrace(th) =>
                /\ traces' = traces
                /\ \A t \in traces : traceObj'[t] = traceObj[t]
                /\ ~local'[th].found
          /\ ReturnsWithoutTrace(th) =>
                /\ traces' = traces
                /\ \A t \in traces : traceObj'[t] = traceObj[t]
                /\ ret'[th].kind \in {"skipped", "noop"}]_vars

\* A registration for a trace that is not registered has returned while
\* another trace is registered with a span.
C38_Witness ==
    \E th \in Threads :
        /\ ret[th].kind \in {"skipped", "noop"}
        /\ \E t \in traces : DOMAIN traceObj[t].span_dict # {}



\* The tasks in the queue.
QaQueued == {qaQueue[i] : i \in DOMAIN qaQueue}

\* C39: however put and activate calls of several threads on a fresh queue
\* interleave, at most one drain thread, one pair of thread pools and one
\* process-exit hook are created, exactly one of each once the queue is
\* activated; no put raises, and the task of every put that has returned
\* is in the queue once and was handed to the status-check pool.
C39_ActivatedOnceNoTaskLost ==
    /\ qaDrainThreads <= 1 /\ qaPools <= 1 /\ qaHooks <= 1
    /\ qaActivated => (qaDrainThreads = 1 /\ qaPools = 1 /\ qaHooks = 1)
    /\ qaRaised = {}
    /\ qaReturned \subseteq QaQueued
    /\ qaReturned \subseteq qaSubmitted
    /\ Cardinality(QaQueued) = Len(qaQueue)
    /\ \A th \in Threads : qaPc[th] \in {"put_enqueue", "put_submit"} => qaActivated

\* Two threads called put on the fresh queue at the same time: one found
\* the queue not activated, waited for the lock and finds the queue
\* activated by the other, whose task is in the queue.
C39_Witness ==
    \E th \in Threads :
        /\ qaPc[th] = "act_check"
        /\ qaCall[th] = "put"
        /\ qaActivated
        /\ qaReturned # {}


\* C40: an export with display disabled by the configuration does not
\* display the trace; no exception leaves export, also when the display
\* hook raises; and the hook does not keep the trace from being logged: with
\* synchronous logging and a working backend the trace has been logged
\* when export returns.
C40_DisplayHookCannotFailExport ==
    dxPc = "done" =>
        /\ ~dxIn.display_on_notebook => ~dxDisplayed
        /\ ~dxEscaped
        /\ (~dxIn.async /\ dxIn.backend_ok) => dxLogged

=============================================================================
